---- MODULE Spec2Model ----
(***************************************************************************)
(* A model of amisr2madrigal's conversion core (src/madrigal3_amisr.py):   *)
(* the type dispatcher hdf5Handler, the three conversions hdf5ToMadrigal,  *)
(* hdf5UncorrectedToMadrigal and hdf5VelocityToMadrigal, the worker        *)
(* wrapper mp_wrapper with its shared result slots, and the calls the      *)
(* conversions make on the output container (append, dump, close).         *)
(*                                                                         *)
(* Conventions.  Python's None, numpy's NaN and Madrigal's 'missing' are   *)
(* negative integers, so that they can sit in the same sequences as range  *)
(* values (which are never negative).  Ranges are in meters and multiples  *)
(* of 1000, cutoffs are whole km, so x/1000.0 is the exact x \div 1000.    *)
(* The validity filters only compare a value with the limits of its field, *)
(* so every other physical value is an integer in a unit that makes the    *)
(* limits of its field whole numbers; the unit is named with the limits.   *)
(* No value of a source coincides with one of the negative markers.        *)
(* Python's 0-based indices are kept in the operators that model loops;    *)
(* TLA+ sequences are 1-based, so r[i] of the code is r[i+1] here.         *)
(***************************************************************************)
EXTENDS Integers, Sequences, FiniteSets, TLC

VARIABLES
    pc,         \* where the driving process is in createMad3File / __init__
    err,        \* the exception that ended the conversion ("" when none)
    tag,        \* the hdf5Type argument of hdf5Handler (<<>> before the call)
    hType,      \* hdf5Handler.__type ("" before the handler exists)
    src,        \* the source hdf5 file and the cutoffs of the call
    srcOpened,  \* the source file of this call has been opened
    cedar,      \* the output container (cedarObj)
    inputs,     \* the list of task arguments
    rw,         \* lowerRangeIndex, upperRangeIndex, numUsedRanges
    width,      \* datarecsize, the width of one result slot
    taskState,  \* per task: "queued", "done" or "raised"
    slots,      \* output_array, the shared result slots
    outOfOrder, \* some task completed before a task submitted earlier
    got,        \* number of jobs whose p.get() has returned
    idx,        \* the loop index i (recIndex for velocity) of the output loop
    appended,   \* the records this conversion handed to cedarObj.append
    numRecs,    \* the attribute numRecs of the conversion
    fileNo,     \* number of createMadrigalFile calls started so far
    disk,       \* what the batch layer finds on disk: files, tables, ini sections
    defaults,   \* the list that is the default value of get_unique_fname's plotBasenames
    call,       \* the last call of the batch layer: its name, arguments and result
    calls       \* number of calls of the batch layer made so far

\* the variables of one conversion
conv == <<pc, err, tag, hType, src, srcOpened, cedar, inputs, rw, width, taskState,
          slots, outOfOrder, got, idx, appended, numRecs, fileNo>>

\* the variables of the batch layer (BatchExperiment, MadrigalIni and the
\* module-level helpers)
batch == <<disk, defaults, call, calls>>

vars == <<pc, err, tag, hType, src, srcOpened, cedar, inputs, rw, width, taskState,
          slots, outOfOrder, got, idx, appended, numRecs, fileNo,
          disk, defaults, call, calls>>

-----------------------------------------------------------------------------
(* Bounds of the model *)

\* most tasks (numTimes * numBeams) of one conversion explored under Spec
MaxTasks == 4
\* most records of one conversion explored under SpecAccum
MaxRecs == 102
\* most conversions in a row explored under SpecAccum
MaxFiles == 2
\* most range gates of a range array explored under SpecRange
MaxGates == 3
\* most range gates, or bins, of a file explored under SpecCells
MaxCells == 2
\* highest version number of a Madrigal file found on disk or asked for
MaxVersion == 3
\* most calls of the batch layer in one behaviour
MaxCalls == 2
\* most lines of typeTab.txt before the first call
MaxTable == 2
\* plot files an experiment directory holds before the first call
MaxPlots == 2

(* Program constants *)

\* "if i % 50 == 0: cedarObj.dump()" of the two parallel conversions
DumpEvery == 50
\* "if recIndex % 100 == 0: cedarObj.dump()" of the velocity conversion
VelocityDumpEvery == 100

None == 0 - 1
NaN == 0 - 2
Missing == 0 - 3
\* Madrigal's marker 'assumed'
Assumed == 0 - 4
\* a cell of a new MadrigalDataRecord that no set2D call has written
Unset == 0 - 5
\* numpy's -inf
NegInf == 0 - 6

Min(S) == CHOOSE x \in S : \A y \in S : x <= y

-----------------------------------------------------------------------------
(* Strings that the code transforms: a tag is a sequence of characters. *)

Upper == <<"A","C","D","E","I","L","N","O","R","S","T","U","V","Y">>
LowerOf == <<"a","c","d","e","i","l","n","o","r","s","t","u","v","y">>

\* str.lower() on one character
LowerChar(c) ==
    IF \E k \in 1..Len(Upper) : Upper[k] = c
    THEN LowerOf[CHOOSE k \in 1..Len(Upper) : Upper[k] = c]
    ELSE c

\* str.lower()
StrLower(s) == [k \in 1..Len(s) |-> LowerChar(s[k])]

S_standard == <<"s","t","a","n","d","a","r","d">>
S_velocity == <<"v","e","l","o","c","i","t","y">>
S_uncorrected == <<"u","n","c","o","r","r","e","c","t","e","d","_","n","e","_","o","n","l","y">>
S_velocityalt == <<"v","e","l","o","c","i","t","y","a","l","t">>

\* the tags a caller may pass as hdf5Type
Tags ==
    { S_standard, S_velocity, S_uncorrected, S_velocityalt,
      <<"S","t","a","n","d","a","r","d">>,
      <<"v","e","l","o","c","i","t","y","A","l","t">>,
      <<"s","t","a","n","d","a","r","d","s">>,
      <<"v","e","l","o","c","i","t","y","_","a","l","t">>,
      <<>> }

\* a variant whose last branch falls back to 'standard'
HandlerTypeDefaulting(hdf5Type) ==
    IF StrLower(hdf5Type) = S_velocity THEN "velocity"
    ELSE IF StrLower(hdf5Type) = S_uncorrected THEN "uncorrected_ne_only"
    ELSE IF StrLower(hdf5Type) = S_velocityalt THEN "velocityAlt"
    ELSE "standard"

\* hdf5Handler.__init__: the type stored in self.__type, "" for ValueError
HandlerType(hdf5Type) ==
    IF StrLower(hdf5Type) = S_standard THEN "standard"
    ELSE IF StrLower(hdf5Type) = S_velocity THEN "velocity"
    ELSE IF StrLower(hdf5Type) = S_uncorrected THEN "uncorrected_ne_only"
    ELSE IF StrLower(hdf5Type) = S_velocityalt THEN "velocityAlt"
    ELSE ""

\* the classes the module defines; createMadrigalFile names a fourth,
\* hdf5VelocityAltToMadrigal, that no file of the repository defines
DefinedClasses == {"hdf5ToMadrigal", "hdf5VelocityToMadrigal", "hdf5UncorrectedToMadrigal"}

\* hdf5Handler.createMadrigalFile: the class the branch for self.__type names
DispatchClass(t) ==
    IF t = "standard" THEN "hdf5ToMadrigal"
    ELSE IF t = "velocity" THEN "hdf5VelocityToMadrigal"
    ELSE IF t = "uncorrected_ne_only" THEN "hdf5UncorrectedToMadrigal"
    ELSE IF t = "velocityAlt" THEN "hdf5VelocityAltToMadrigal"
    ELSE ""

Parallel(t) == t \in {"standard", "uncorrected_ne_only"}

-----------------------------------------------------------------------------
(* The range window of the uncorrected-density conversion *)

\* x/1000.0: meters to km (NaN stays NaN)
Km(x) == IF x = NaN THEN NaN ELSE x \div 1000

\* numpy's >= and <: a comparison with NaN is False
GE(x, y) == x # NaN /\ x >= y
LT(x, y) == x # NaN /\ x < y

\* a variant with a strict comparison
LowerHitStrict(x, lowerRange) == x # NaN /\ Km(x) > lowerRange

\* "rangeArray[0][i]/1000.0 >= lowerRange" of the scan
LowerHit(x, lowerRange) == GE(Km(x), lowerRange)

\* "rangeArray[0][-1 - i]/1000.0 < upperRange" of the scan
UpperHit(x, upperRange) == LT(Km(x), upperRange)

\* lowerRangeIndex after the scan: the first i whose gate passes, else None
LowerRangeIndex(r, lowerRange) ==
    IF lowerRange = None THEN 0
    ELSE LET hits == {i \in 0..(Len(r) - 1) : LowerHit(r[i + 1], lowerRange)}
         IN  IF hits = {} THEN None ELSE Min(hits)

\* upperRangeIndex after the scan: numRanges - i for the first i whose gate
\* r[-1 - i] passes, else None
UpperRangeIndex(r, upperRange) ==
    IF upperRange = None THEN Len(r)
    ELSE LET hits == {i \in 0..(Len(r) - 1) : UpperHit(r[Len(r) - i], upperRange)}
         IN  IF hits = {} THEN None ELSE Len(r) - Min(hits)

\* upperRangeIndex as used: "if upperRangeIndex == None: upperRangeIndex = numRanges"
UpperOrAll(r, u) == IF u = None THEN Len(r) ELSE u

NoWindow == [ok |-> FALSE, lo |-> 0, hi |-> 0, n |-> 0]

\* the whole scan: the window, or NoWindow where the code raises IOError
RangeWindow(r, lowerRange, upperRange) ==
    LET l == LowerRangeIndex(r, lowerRange)
        u == UpperOrAll(r, UpperRangeIndex(r, upperRange))
    IN  IF l = None THEN NoWindow
        ELSE IF u - l <= 0 THEN NoWindow
        ELSE [ok |-> TRUE, lo |-> l, hi |-> u, n |-> u - l]

-----------------------------------------------------------------------------
(* Arithmetic on numpy floats *)

\* numpy's > and <=: a comparison with NaN is False
GT(x, y) == x # NaN /\ x > y
LE(x, y) == x # NaN /\ x <= y

\* abs(x), np.abs(x)
Abs(x) == IF x = NaN THEN NaN ELSE IF x < 0 THEN 0 - x ELSE x

\* x * y on floats
Mul(x, y) == IF x = NaN \/ y = NaN THEN NaN ELSE x * y

\* log10 of a positive power of ten (the densities of the sources are)
RECURSIVE Log10Pos(_)
Log10Pos(x) == IF x < 10 THEN 0 ELSE 1 + Log10Pos(x \div 10)

\* np.log10: nan for NaN and for a negative number, -inf for 0, without raising
Log10(x) ==
    IF x = NaN THEN NaN
    ELSE IF x < 0 THEN NaN
    ELSE IF x = 0 THEN NegInf
    ELSE Log10Pos(x)

-----------------------------------------------------------------------------
(* The limits of hdf5ToMadrigal.__init__, passed to the builder as limits *)

\* temperatures and their errors, in K
minTemp == 100
maxTemp == 10000
maxTempErr == 32765
minTempErr == 1
\* electron density, in 1.0E9 m^-3
minNe == 1
maxNe == 10000
\* error of the electron density: minNeErr is 1.0 m^-3 and maxNeErr is
\* 3.2E13 m^-3; the values between them are 2..31
maxNeErr == 32
minNeErr == 1
\* line-of-sight velocity and its error, in 0.01 m/s
maxVo == 3276500
maxVoErr == 3276500
minVoErr == 1
\* ion fraction, in 0.01
maxFract == 100
minFract == 0

-----------------------------------------------------------------------------
(* The record builders.  A built record keeps its tuple (time and beam     *)
(* index, 0-based) and its 2D rows; a row holds one cell per 2D field.     *)

NoRecord == [kind |-> "none", time |-> 0, beam |-> 0, rows |-> <<>>]
Raised == [kind |-> "raise", time |-> 0, beam |-> 0, rows |-> <<>>]

\* the values of r from position k on that are not NaN, in their order
RECURSIVE Pick(_, _)
Pick(r, k) ==
    IF k > Len(r) THEN <<>>
    ELSE IF r[k] # NaN THEN <<r[k]>> \o Pick(r, k + 1)
    ELSE Pick(r, k + 1)

\* valid_range_indices, as the values at those indices
ValidRanges(r) == Pick(r, 1)

\* the indices (0-based) from k on whose range is not NaN, in their order
RECURSIVE PickIndices(_, _)
PickIndices(r, k) ==
    IF k >= Len(r) THEN <<>>
    ELSE IF r[k + 1] # NaN THEN <<k>> \o PickIndices(r, k + 1)
    ELSE PickIndices(r, k + 1)

\* valid_range_indices
valid_range_indices(r) == PickIndices(r, 0)

\* the 'range' cell of a fitted row: the source value as it is
FittedRangeCell(x) == x

\* "neValue < minNe or neValue > maxNe or np.isnan(neValue)"
NeInvalid(ne) == LT(ne, minNe) \/ GT(ne, maxNe) \/ ne = NaN

\* a variant whose lower limit is inclusive
DneInvalidInclusive(dne) == LT(dne, minNeErr) \/ GT(dne, maxNeErr) \/ dne = NaN

\* "dneValue <= minNeErr or dneValue > maxNeErr or np.isnan(dneValue)"
DneInvalid(dne) == LE(dne, minNeErr) \/ GT(dne, maxNeErr) \/ dne = NaN

\* the try block of ne: ne is set, then dne; a ValueError sets both missing
NeCells(g) ==
    IF NeInvalid(g.ne) \/ DneInvalid(g.dne)
    THEN [v |-> Missing, e |-> Missing]
    ELSE [v |-> g.ne, e |-> g.dne]

\* "fits < minTemp or fits > maxTemp or np.isnan(fits)"
TempInvalid(t) == LT(t, minTemp) \/ GT(t, maxTemp) \/ t = NaN

\* "err < minTempErr or err > maxTempErr or np.isnan(err)"
TempErrInvalid(e) == LT(e, minTempErr) \/ GT(e, maxTempErr) \/ e = NaN

\* the try block of ti (fits and errors at o_index, tempIndex)
TiCells(g) ==
    IF TempInvalid(g.ti) \/ TempErrInvalid(g.dti)
    THEN [v |-> Missing, e |-> Missing]
    ELSE [v |-> g.ti, e |-> g.dti]

\* a variant that reads the ion temperature (o_index in place of e_index)
TeCellsOfIon(g) ==
    IF TempInvalid(g.ti) \/ TempErrInvalid(g.dti)
    THEN [v |-> Missing, e |-> Missing]
    ELSE [v |-> g.ti, e |-> g.dti]

\* the try block of te (fits and errors at e_index, tempIndex)
TeCells(g) ==
    IF TempInvalid(g.te) \/ TempErrInvalid(g.dte)
    THEN [v |-> Missing, e |-> Missing]
    ELSE [v |-> g.te, e |-> g.dte]

\* the condition of the try block of vo
VoInvalid(v, e) ==
    v = NaN \/ GT(Abs(v), maxVo) \/ e = NaN \/ GT(e, maxVoErr) \/ LT(e, minVoErr)

\* the try block of vo (fits and errors at o_index, velIndex)
VoCells(g) ==
    IF VoInvalid(g.vo, g.dvo)
    THEN [v |-> Missing, e |-> Missing]
    ELSE [v |-> g.vo, e |-> g.dvo]

\* "np.isnan(fract) or fract > maxFract or fract < minFract"
FractInvalid(f) == f = NaN \/ GT(f, maxFract) \/ LT(f, minFract)

\* a variant that writes 'assumed' whatever the fraction is
PoCellsAlwaysAssumed(g) ==
    IF FractInvalid(g.fract)
    THEN [v |-> Missing, e |-> Assumed]
    ELSE [v |-> g.fract, e |-> Assumed]

\* the try block of po+ (fits at o_index, fractIndex): dpo+ is 'assumed'
\* next to a numeric po+ and 'missing' next to a missing one
PoCells(g) ==
    IF FractInvalid(g.fract)
    THEN [v |-> Missing, e |-> Missing]
    ELSE [v |-> g.fract, e |-> Assumed]

\* chisq, sn, cgm_lat, cgm_long: the value, or 'missing' for NaN
NanToMissing(x) == IF x = NaN THEN Missing ELSE x

\* one pass of "for row, rangeIndex in enumerate(valid_range_indices)": the
\* cells of the row, from the range x and the values g of the gate
FittedRow(x, g) ==
    [range |-> FittedRangeCell(x),
     ne |-> NeCells(g).v, dne |-> NeCells(g).e,
     ti |-> TiCells(g).v, dti |-> TiCells(g).e,
     te |-> TeCells(g).v, dte |-> TeCells(g).e,
     vo |-> VoCells(g).v, dvo |-> VoCells(g).e,
     cgm_lat |-> NanToMissing(g.plat), cgm_long |-> NanToMissing(g.plong),
     po |-> PoCells(g).v, dpo |-> PoCells(g).e,
     chisq |-> NanToMissing(g.chisq), sn |-> NanToMissing(g.snr)]

\* set_fitted_data_rec: None when no range is valid, else a record of
\* len(valid_range_indices) rows, row k written from gate valid_range_indices[k];
\* any exception but the ValueError it catches leaves the builder
set_fitted_data_rec(inp) ==
    IF inp.bad THEN Raised
    ELSE LET indices == valid_range_indices(inp.rangeValue)
         IN  IF Len(indices) = 0 THEN NoRecord
             ELSE [kind |-> "rec", time |-> inp.time, beam |-> inp.beam,
                   rows |-> [row \in 1..Len(indices) |->
                                 FittedRow(inp.rangeValue[indices[row] + 1],
                                           inp.gates[indices[row] + 1])]]

\* the 'range' cell of an uncorrected row: km, or 'missing' for NaN
UncorrectedRangeCell(x) == IF x = NaN THEN Missing ELSE Km(x)

\* the source gate (0-based) written to row k (0-based)
GateOfRow(lowerRangeIndex, k) == lowerRangeIndex + k

\* a variant that tests the error fraction before it writes popl
\* and leaves popl in place
PopCellsKeepPopl(pop, dpop) ==
    IF pop = NaN THEN [v |-> Missing, e |-> Missing]
    ELSE IF LE(dpop, 0) \/ dpop = NaN THEN [v |-> Log10(pop), e |-> Missing]
    ELSE [v |-> Log10(pop), e |-> Log10(Mul(dpop, pop))]

\* a variant whose dpopl is the logarithm of the error fraction alone
PopCellsOfFraction(pop, dpop) ==
    IF pop = NaN THEN [v |-> Missing, e |-> Missing]
    ELSE IF LE(dpop, 0) \/ dpop = NaN THEN [v |-> Missing, e |-> Missing]
    ELSE [v |-> Log10(pop), e |-> Log10(dpop)]

\* the try block of popl: popl is set to log10(pop), then dpopl to
\* log10(dpop * pop); a ValueError sets both missing
PopCells(pop, dpop) ==
    IF pop = NaN THEN [v |-> Missing, e |-> Missing]
    ELSE IF LE(dpop, 0) \/ dpop = NaN THEN [v |-> Missing, e |-> Missing]
    ELSE [v |-> Log10(pop), e |-> Log10(Mul(dpop, pop))]

\* one pass of "for rangeIndex in range(lowerRangeIndex, upperRangeIndex)"
UncorrectedRow(x, g) ==
    [range |-> UncorrectedRangeCell(x),
     popl |-> PopCells(g.pop, g.dpop).v, dpopl |-> PopCells(g.pop, g.dpop).e]

\* a row of a new record before any set2D call
UnsetRow == [range |-> Unset, popl |-> Unset, dpopl |-> Unset]

\* set_uncorrected_data_rec: a record of numUsedRanges rows; the loop writes
\* row rangeIndex - lowerRangeIndex for rangeIndex in
\* range(lowerRangeIndex, upperRangeIndex); set2D on a row the record does
\* not have raises
set_uncorrected_data_rec(inp) ==
    IF inp.bad THEN Raised
    ELSE IF inp.upperRangeIndex - inp.lowerRangeIndex > inp.numUsedRanges THEN Raised
    ELSE [kind |-> "rec", time |-> inp.time, beam |-> inp.beam,
          rows |-> [k \in 1..inp.numUsedRanges |->
                        IF GateOfRow(inp.lowerRangeIndex, k - 1) < inp.upperRangeIndex
                        THEN UncorrectedRow(
                                 inp.rangeValue[GateOfRow(inp.lowerRangeIndex, k - 1) + 1],
                                 inp.gates[GateOfRow(inp.lowerRangeIndex, k - 1) + 1])
                        ELSE UnsetRow]]

\* func of mp_wrapper: the builder of the conversion
Builder(t, inp) ==
    IF t = "standard" THEN set_fitted_data_rec(inp) ELSE set_uncorrected_data_rec(inp)

-----------------------------------------------------------------------------
(* The records of the velocity conversion (hdf5VelocityToMadrigal).  The   *)
(* arrays of the VectorVels group are indexed [recIndex][platIndex]; the   *)
(* files explored hold the same bins for every record.                     *)

\* velocities and their errors, in 0.1 m/s
maxV == 327650
maxVErr == 327650
minVErr == 10
\* electric fields and their errors, in 1.0E-7 V/m
maxE == 3276500
maxEErr == 3276500
minEErr == 1
\* direction errors, in 0.01 degrees; minDirErr is the literal 1e-2
maxDirErr == 36000
minDirErr == 1

\* the groups of the source file read under try/except
Groups == {"Vest", "Vmag", "Eest", "Emag"}

\* the except branch of each of the four reads sets the arrays to None and
\* then evaluates the name xxxxxx, which nothing defines: NameError
ReadRaises(unreadable) == unreadable # {}

\* params as the read block leaves it: nsmpta, the latitude and the vector
\* components, then the fields of each group that was read
params(byGeo, unreadable) ==
    <<"nsmpta">>
    \o (IF byGeo # 0
        THEN (IF byGeo = 2 THEN <<"gdlat">> ELSE <<"cgm_lat">>)
             \o <<"vi2", "dvi2", "vi1", "dvi1", "vi3", "dvi3">>
        ELSE <<"cgm_lat", "vipn", "dvipn", "vipe", "dvipe", "vi6", "dvi6">>)
    \o (IF "Vmag" \in unreadable THEN <<>>
        ELSE IF byGeo # 0 THEN <<"magvel", "dmagvel", "gnangle", "dgnangle">>
        ELSE <<"magvel", "dmagvel", "nangle", "dnangle">>)
    \o (IF "Eest" \in unreadable THEN <<>>
        ELSE IF byGeo # 0 THEN <<"en", "den", "ee", "dee", "eu", "deu">>
        ELSE <<"epn", "depn", "epe", "depe">>)
    \o (IF "Emag" \in unreadable THEN <<>>
        ELSE IF byGeo # 0 THEN <<"magef", "dmagef", "geangle", "dgeangle">>
        ELSE <<"magef", "dmagef", "eangle", "deangle">>)

\* "dvestArray = np.maximum(dvestArray, minVErr)": the errors of the vector
\* components are raised to minVErr; np.maximum keeps NaN
FloorVErr(e) == IF e = NaN THEN NaN ELSE IF e < minVErr THEN minVErr ELSE e

\* the condition of the try blocks of the vector components and of magvel
VInvalid(v, e) ==
    v = NaN \/ e = NaN \/ LT(Abs(e), minVErr) \/ GT(Abs(e), maxVErr) \/ GT(Abs(v), maxV)

\* the condition of the try blocks of the electric field and of magef
EInvalid(v, e) ==
    v = NaN \/ e = NaN \/ LT(Abs(e), minEErr) \/ GT(Abs(e), maxEErr) \/ GT(Abs(v), maxE)

\* the condition of the try blocks of the directions
DirInvalid(v, e) == v = NaN \/ e = NaN \/ GT(e, maxDirErr) \/ LT(e, minDirErr)

\* a value cell and an error cell, each under the condition of its pair
ValueCell(invalid, v) == IF invalid THEN Missing ELSE v
ErrorCell(invalid, e) == IF invalid THEN Missing ELSE e

\* the branch of "for parmIndex in range(len(params))" that handles field p,
\* for the bin b of the record
VelocityCell(p, b) ==
    IF p = "nsmpta" THEN NanToMissing(b.nmeas)
    ELSE IF p \in {"gdlat", "cgm_lat"}
         THEN (IF b.plat0 = NaN \/ b.plat1 = NaN THEN Missing
               ELSE (b.plat0 + b.plat1) \div 2)
    ELSE IF p \in {"vipn", "vi2"} THEN ValueCell(VInvalid(b.vn, FloorVErr(b.dvn)), b.vn)
    ELSE IF p \in {"dvipn", "dvi2"}
         THEN ErrorCell(VInvalid(b.vn, FloorVErr(b.dvn)), FloorVErr(b.dvn))
    ELSE IF p \in {"vipe", "vi1"} THEN ValueCell(VInvalid(b.ve, FloorVErr(b.dve)), b.ve)
    ELSE IF p \in {"dvipe", "dvi1"}
         THEN ErrorCell(VInvalid(b.ve, FloorVErr(b.dve)), FloorVErr(b.dve))
    ELSE IF p \in {"vi6", "vi3"} THEN ValueCell(VInvalid(b.vp, FloorVErr(b.dvp)), b.vp)
    ELSE IF p \in {"dvi6", "dvi3"}
         THEN ErrorCell(VInvalid(b.vp, FloorVErr(b.dvp)), FloorVErr(b.dvp))
    ELSE IF p \in {"epn", "en"} THEN ValueCell(EInvalid(b.en, b.den), b.en)
    ELSE IF p \in {"depn", "den"} THEN ErrorCell(EInvalid(b.en, b.den), b.den)
    ELSE IF p \in {"epe", "ee"} THEN ValueCell(EInvalid(b.ee, b.dee), b.ee)
    ELSE IF p \in {"depe", "dee"} THEN ErrorCell(EInvalid(b.ee, b.dee), b.dee)
    ELSE IF p = "eu" THEN ValueCell(EInvalid(b.eu, b.deu), b.eu)
    ELSE IF p = "deu" THEN ErrorCell(EInvalid(b.eu, b.deu), b.deu)
    ELSE IF p = "magvel" THEN ValueCell(VInvalid(b.vmag, b.dvmag), b.vmag)
    ELSE IF p = "dmagvel" THEN ErrorCell(VInvalid(b.vmag, b.dvmag), b.dvmag)
    ELSE IF p = "magef" THEN ValueCell(EInvalid(b.emag, b.demag), b.emag)
    ELSE IF p = "dmagef" THEN ErrorCell(EInvalid(b.emag, b.demag), b.demag)
    ELSE IF p \in {"nangle", "gnangle"} THEN ValueCell(DirInvalid(b.vdir, b.dvdir), b.vdir)
    ELSE IF p \in {"dnangle", "dgnangle"} THEN ErrorCell(DirInvalid(b.vdir, b.dvdir), b.dvdir)
    ELSE IF p \in {"eangle", "geangle"} THEN ValueCell(DirInvalid(b.edir, b.dedir), b.edir)
    ELSE IF p \in {"deangle", "dgeangle"} THEN ErrorCell(DirInvalid(b.edir, b.dedir), b.dedir)
    ELSE Unset

\* one pass of "for platIndex in range(numPlat)": a cell for each field of ps
VelocityRow(ps, b) == [p \in {ps[k] : k \in 1..Len(ps)} |-> VelocityCell(p, b)]

-----------------------------------------------------------------------------
(* Serialization through the result slots.  len(dill.dumps(x)) grows with  *)
(* the number of rows of the record (the record holds one array row per    *)
(* 2D row); dill.dumps(None) is shorter than any record.                   *)

DumpsLen(x) == IF x.kind = "none" THEN 1 ELSE 2 + Len(x.rows)

\* a slot of np.zeros: no bytes
EmptySlot == [rec |-> NoRecord, len |-> 0]

\* "array[index] = encoded" into dtype '|S<width>': numpy keeps the first
\* width bytes without error
StoreSlot(x, w) == [rec |-> x, len |-> IF DumpsLen(x) <= w THEN DumpsLen(x) ELSE w]

\* dill.loads(output_array[i]) returns the record only from all its bytes;
\* from no bytes or a cut pickle it raises
LoadsOk(s) == s.len > 0 /\ s.len = DumpsLen(s.rec)

\* a variant that fills the slots in the order the tasks complete
SlotOfTaskByCompletion(index) ==
    Cardinality({j \in 1..Len(taskState) : taskState[j] # "queued"}) + 1

\* the slot a task writes: its own index
SlotOfTask(index) == index

\* the slot the output loop reads at iteration i
SlotOfIter(i) == i


-----------------------------------------------------------------------------
(* The output container, as the conversions use it *)

NoCedar == [created |-> FALSE, closes |-> 0, pending |-> 0, late |-> FALSE]

\* madrigal.cedar.MadrigalCedarFile(madrigalFile, True, ...)
NewCedar == [created |-> TRUE, closes |-> 0, pending |-> 0, late |-> FALSE]

\* cedarObj.append(record): one more pending record
CedarAppend(c) == [c EXCEPT !.pending = @ + 1, !.late = @ \/ (c.closes > 0)]

\* cedarObj.dump(): the pending records are written out
CedarDump(c) == [c EXCEPT !.pending = 0, !.late = @ \/ (c.closes > 0)]

\* cedarObj.close()
CedarClose(c) == [c EXCEPT !.closes = @ + 1]

\* a variant that dumps half as often
VelocityDumpsAtHalf(i) == i % (2 * VelocityDumpEvery) = 0

\* "if i % 50 == 0" and "if recIndex % 100 == 0": whether iteration i dumps
DumpsAt(i) == i % DumpEvery = 0

VelocityDumpsAt(i) == i % VelocityDumpEvery = 0

-----------------------------------------------------------------------------
(* Source files.  Next to its range arrays a source file holds, for each   *)
(* range gate, the values the builders read there (data); the files       *)
(* explored hold the same values for every time and beam.                  *)

\* the values of one range gate: all valid
GoodGate ==
    [ne |-> 100, dne |-> 2, ti |-> 1000, dti |-> 10, te |-> 2000, dte |-> 20,
     vo |-> 5000, dvo |-> 100, fract |-> 50, chisq |-> 7, snr |-> 8,
     plat |-> 65, plong |-> 90, pop |-> 1000, dpop |-> 10]

\* n gates of valid values
GoodData(n) == [g \in 1..n |-> GoodGate]

\* the values of one bin of a velocity file: all valid
GoodBin ==
    [nmeas |-> 12, plat0 |-> 64, plat1 |-> 66,
     vn |-> 3000, dvn |-> 200, ve |-> 4000, dve |-> 300, vp |-> 500, dvp |-> 100,
     vmag |-> 5000, dvmag |-> 400, vdir |-> 4500, dvdir |-> 500,
     en |-> 2000, den |-> 50, ee |-> 1000, dee |-> 40, eu |-> 100, deu |-> 30,
     emag |-> 2200, demag |-> 60, edir |-> 9000, dedir |-> 700]

\* a velocity file whose groups are all readable, with one bin
GoodVel == [byGeo |-> 0, unreadable |-> {}, bins |-> <<GoodBin>>]

\* the range arrays a source file of Spec may hold (meters)
RangeChoices == { <<NaN, NaN>>, <<100000, NaN>>, <<100000, 200000>> }

\* the (lowerRange, upperRange) pairs of Spec, in km
CutoffChoices == { <<None, None>>, <<150, None>> }

RECURSIVE SeqsOf(_, _)
SeqsOf(S, n) ==
    IF n = 0 THEN {<<>>}
    ELSE {<<x>> \o t : x \in S, t \in SeqsOf(S, n - 1)}

\* a source file with numTimes x numBeams tuples
SourcesOf(nt, nb) ==
    { [numTimes |-> nt, numBeams |-> nb, rangeTime |-> rt, ranges |-> rs,
       bad |-> b, lowerRange |-> c[1], upperRange |-> c[2], data |-> GoodData(2), vel |-> GoodVel] :
        rt \in {0, 1},
        rs \in SeqsOf(RangeChoices, nt) \cup SeqsOf(RangeChoices, 1),
        b \in {0, 1, nt * nb},
        c \in CutoffChoices }

\* the source files of Spec: every mix of empty, short and full range arrays
SmallSources ==
    { s \in UNION { SourcesOf(nt, nb) : nt \in 0..MaxTasks, nb \in 1..MaxTasks } :
        /\ s.numTimes * s.numBeams <= MaxTasks
        /\ Len(s.ranges) = (IF s.rangeTime = 1 THEN s.numTimes ELSE 1) }

\* the record counts of SpecAccum: around each dump period, and the most
RecCounts == {0, 1, 2, DumpEvery, DumpEvery + 1, VelocityDumpEvery, VelocityDumpEvery + 1, MaxRecs}

\* the source files of SpecAccum: long files with one beam whose ranges do
\* not vary in time, all valid or all NaN; short files whose last time index
\* has no valid range or whose last record fails to build
LongSources ==
    { [numTimes |-> nt, numBeams |-> 1, rangeTime |-> 0, ranges |-> <<r>>,
       bad |-> 0, lowerRange |-> None, upperRange |-> None, data |-> GoodData(2), vel |-> GoodVel] :
        nt \in RecCounts, r \in {<<100000, 200000>>, <<NaN, NaN>>} }
    \cup
    { [numTimes |-> 3, numBeams |-> 1, rangeTime |-> 1,
       ranges |-> << <<100000, 200000>>, <<100000, 200000>>, <<NaN, NaN>> >>,
       bad |-> 0, lowerRange |-> None, upperRange |-> None, data |-> GoodData(2), vel |-> GoodVel],
      [numTimes |-> 3, numBeams |-> 1, rangeTime |-> 0, ranges |-> << <<NaN, NaN>> >>,
       bad |-> 3, lowerRange |-> None, upperRange |-> None, data |-> GoodData(2), vel |-> GoodVel] }

\* the range values and cutoffs of SpecRange (meters; km)
GateValues == {50000, 100000, 150000, NaN}
Cutoffs == {None, 50, 100, 150, 200}

RangeArrays == UNION { SeqsOf(GateValues, n) : n \in 1..MaxGates }

\* the source files of SpecRange: one tuple, every range array and window
RangeSources ==
    { [numTimes |-> 1, numBeams |-> 1, rangeTime |-> rt, ranges |-> <<r>>,
       bad |-> 0, lowerRange |-> lo, upperRange |-> up, data |-> GoodData(Len(r)), vel |-> GoodVel] :
        rt \in {0, 1}, r \in RangeArrays, lo \in Cutoffs, up \in Cutoffs }

\* the values of SpecCells: for each field NaN, and values below, at and
\* above each limit of the field
NeValues == {NaN, minNe - 1, minNe, maxNe, maxNe + 1}
DneValues == {NaN, minNeErr - 1, minNeErr, minNeErr + 1, maxNeErr, maxNeErr + 1}
TempValues == {NaN, minTemp - 1, minTemp, maxTemp, maxTemp + 1}
TempErrValues == {NaN, minTempErr - 1, minTempErr, maxTempErr, maxTempErr + 1}
VoValues == {NaN, 0 - (maxVo + 1), 0 - maxVo, maxVo, maxVo + 1}
VoErrValues == {NaN, minVoErr - 1, minVoErr, maxVoErr, maxVoErr + 1}
FractValues == {NaN, minFract - 10, minFract, maxFract, maxFract + 10}
\* densities from power (a negative one is what noise subtraction leaves)
\* and their error fractions
PopValues == {NaN, 0 - 100, 0, 10, 1000}
DpopValues == {NaN, 0 - 10, 0, 1, 10}

\* the gates of a fitted file: one field takes every value while the others
\* are valid, or several fields are invalid at once
FittedGates ==
    { [GoodGate EXCEPT !.ne = v] : v \in NeValues }
    \cup { [GoodGate EXCEPT !.dne = e] : e \in DneValues }
    \cup { [GoodGate EXCEPT !.ne = v, !.dne = e] :
              v \in {minNe, maxNe + 1}, e \in DneValues }
    \cup { [GoodGate EXCEPT !.ti = v] : v \in TempValues }
    \cup { [GoodGate EXCEPT !.dti = e] : e \in TempErrValues }
    \cup { [GoodGate EXCEPT !.te = v, !.dte = e] :
              v \in {NaN, GoodGate.te}, e \in {NaN, minTempErr - 1, GoodGate.dte} }
    \cup { [GoodGate EXCEPT !.vo = v] : v \in VoValues }
    \cup { [GoodGate EXCEPT !.dvo = e] : e \in VoErrValues }
    \cup { [GoodGate EXCEPT !.fract = v] : v \in FractValues }
    \cup { [GoodGate EXCEPT !.ne = a, !.dti = b, !.te = c, !.dvo = c, !.fract = f,
                            !.chisq = f, !.snr = a, !.plat = b, !.plong = c] :
              a \in {NaN, 100}, b \in {NaN, 10}, c \in {NaN, 2000}, f \in {NaN, 50} }

\* the gates of an uncorrected-density file
UncorrectedGates ==
    { [GoodGate EXCEPT !.pop = v, !.dpop = e] : v \in PopValues, e \in DpopValues }

\* the bins of a velocity file: one field takes every value while the others
\* are valid, or several fields are NaN at once
VelocityBins ==
    { [GoodBin EXCEPT !.vn = v] : v \in {NaN, 0 - (maxV + 1), 0 - maxV, maxV, maxV + 1} }
    \cup { [GoodBin EXCEPT !.dvn = e] :
              e \in {NaN, 0 - 50, 0, 5, minVErr, maxVErr, maxVErr + 1} }
    \cup { [GoodBin EXCEPT !.ve = v, !.dve = e, !.vp = v, !.dvp = f] :
              v \in {NaN, 4000}, e \in {NaN, 5, 300}, f \in {NaN, 100} }
    \cup { [GoodBin EXCEPT !.vmag = v, !.dvmag = e] :
              v \in {NaN, GoodBin.vmag, maxV + 1}, e \in {NaN, 5, minVErr, maxVErr + 1} }
    \cup { [GoodBin EXCEPT !.vdir = v, !.dvdir = e] :
              v \in {NaN, GoodBin.vdir},
              e \in {NaN, minDirErr - 1, minDirErr, maxDirErr, maxDirErr + 1} }
    \cup { [GoodBin EXCEPT !.en = v, !.den = e] :
              v \in {NaN, GoodBin.en, maxE + 1}, e \in {NaN, minEErr - 1, minEErr, maxEErr + 1} }
    \cup { [GoodBin EXCEPT !.ee = v, !.dee = e, !.eu = e, !.deu = v,
                           !.emag = v, !.demag = e, !.edir = e, !.dedir = v,
                           !.nmeas = v, !.plat0 = e] :
              v \in {NaN, 60}, e \in {NaN, 70} }

\* n gates (or bins): q at one place, good everywhere else
Placed(n, q, good) == { [g \in 1..n |-> IF g = j THEN q ELSE good] : j \in 1..n }

\* the range arrays of SpecCells (meters)
CellRanges == UNION { SeqsOf({150000, NaN}, n) : n \in 1..MaxCells }

\* the source files of SpecCells: one tuple (or one or two velocity records)
FittedSources ==
    UNION { { [numTimes |-> 1, numBeams |-> 1, rangeTime |-> 0, ranges |-> <<r>>,
               bad |-> 0, lowerRange |-> None, upperRange |-> None,
               data |-> d, vel |-> GoodVel] :
                 d \in UNION { Placed(Len(r), q, GoodGate) : q \in FittedGates } } :
            r \in CellRanges }

UncorrectedSources ==
    UNION { { [numTimes |-> 1, numBeams |-> 1, rangeTime |-> 0, ranges |-> <<r>>,
               bad |-> 0, lowerRange |-> lo, upperRange |-> None,
               data |-> d, vel |-> GoodVel] :
                 lo \in {None, 100},
                 d \in UNION { Placed(Len(r), q, GoodGate) : q \in UncorrectedGates } } :
            r \in CellRanges }

VelocitySources ==
    { [numTimes |-> nt, numBeams |-> 1, rangeTime |-> 0, ranges |-> << <<NaN, NaN>> >>,
       bad |-> 0, lowerRange |-> None, upperRange |-> None,
       data |-> GoodData(2), vel |-> v] :
         nt \in {1, 2},
         v \in { [byGeo |-> bg, unreadable |-> {}, bins |-> bs] :
                    bg \in {0, 1, 2},
                    bs \in UNION { Placed(n, q, GoodBin) :
                                     n \in 1..MaxCells, q \in VelocityBins } }
               \cup { [byGeo |-> bg, unreadable |-> u, bins |-> <<GoodBin>>] :
                        bg \in {0, 1, 2}, u \in (SUBSET Groups) \ {{}} } }

CellSources(t) ==
    IF t = "standard" THEN FittedSources
    ELSE IF t = "uncorrected_ne_only" THEN UncorrectedSources
    ELSE VelocitySources

NoSource ==
    [numTimes |-> 0, numBeams |-> 1, rangeTime |-> 0, ranges |-> << <<NaN, NaN>> >>,
     bad |-> 0, lowerRange |-> None, upperRange |-> None, data |-> GoodData(2), vel |-> GoodVel]

\* a call of a handler that does not use the cutoffs or the ranges
Relevant(t, s) ==
    /\ (t # "uncorrected_ne_only" => s.lowerRange = None /\ s.upperRange = None)
    /\ (~Parallel(t) => s.numBeams = 1 /\ s.rangeTime = 0 /\ s.ranges = NoSource.ranges
                        /\ s.bad \in {0, s.numTimes})

\* a variant that makes one task per time index
NumTasksPerTime == src.numTimes

\* len(inputs): one tuple per time and beam; numRecs for the velocity loop
NumTasks == IF Parallel(hType) THEN src.numTimes * src.numBeams ELSE src.numTimes

\* rangeArray[recIndex][0] when the ranges vary in time, else rangeArray[0]
RangeAt(t) == IF src.rangeTime = 1 THEN src.ranges[t + 1] ELSE src.ranges[1]

NoRw == [ok |-> TRUE, lo |-> 0, hi |-> 0, n |-> 0]

\* the window in force for time index t
WindowAt(t) ==
    IF hType # "uncorrected_ne_only" THEN NoRw
    ELSE IF src.rangeTime = 1
         THEN RangeWindow(RangeAt(t), src.lowerRange, src.upperRange)
         ELSE rw

\* the time and beam index of the k-th tuple (k from 0) of the nested loops
\* "for recIndex in range(numTimes): for beamIndex in range(numBeams)"
TimeOf(k) == k \div src.numBeams
BeamOf(k) == k % src.numBeams

\* the k-th (from 0) tuple appended to inputs
TupleAt(k) ==
    [time |-> TimeOf(k), beam |-> BeamOf(k), rangeValue |-> RangeAt(TimeOf(k)),
     bad |-> (src.bad = k + 1),
     gates |-> src.data,
     lowerRangeIndex |-> WindowAt(TimeOf(k)).lo,
     upperRangeIndex |-> WindowAt(TimeOf(k)).hi,
     numUsedRanges |-> WindowAt(TimeOf(k)).n]


-----------------------------------------------------------------------------
(* The driving process: createMad3File, hdf5Handler and the conversions *)

\* nothing on disk, no call of the batch layer
NoDisk == [versions |-> {}]
NoCall == [op |-> "none"]

\* the batch layer at rest: the conversions below do not touch it
BatchIdle ==
    /\ disk = NoDisk
    /\ defaults = <<>>
    /\ call = NoCall
    /\ calls = 0

Init ==
    /\ pc = "idle"
    /\ err = ""
    /\ tag = <<>>
    /\ hType = ""
    /\ src = NoSource
    /\ srcOpened = FALSE
    /\ cedar = NoCedar
    /\ inputs = <<>>
    /\ rw = NoRw
    /\ width = 0
    /\ taskState = <<>>
    /\ slots = <<>>
    /\ outOfOrder = FALSE
    /\ got = 0
    /\ idx = 0
    /\ appended = <<>>
    /\ numRecs = None
    /\ fileNo = 0
    /\ BatchIdle

\* an exception leaves the conversion and reaches the caller
Fail(e) == pc' = "failed" /\ err' = e

\* fileHandler = hdf5Handler(hdf5Type)
NewHandler ==
    /\ pc = "idle"
    /\ \E hdf5Type \in Tags :
        /\ tag' = hdf5Type
        /\ IF HandlerType(hdf5Type) = ""
           THEN Fail("ValueError") /\ UNCHANGED hType
           ELSE pc' = "handler" /\ hType' = HandlerType(hdf5Type) /\ UNCHANGED err
    /\ UNCHANGED <<src, srcOpened, cedar, inputs, rw, width, taskState, slots,
                   outOfOrder, got, idx, appended, numRecs, fileNo>>
    /\ UNCHANGED batch

\* fileHandler.createMadrigalFile(hdf5File, kinst, kindat, cedarObj, ...): the
\* branch for self.__type names the class to construct; cedarObj is None or a
\* container the caller already holds
CreateMadrigalFile(sources) ==
    /\ pc = "handler"
    /\ fileNo' = fileNo + 1
    /\ IF DispatchClass(hType) \notin DefinedClasses
       THEN Fail("NameError") /\ UNCHANGED <<src, cedar>>
       ELSE /\ \E s \in sources, passIn \in BOOLEAN :
                /\ Relevant(hType, s)
                /\ passIn => cedar.created
                /\ src' = s
                /\ cedar' = IF passIn THEN cedar ELSE NoCedar
            /\ pc' = "open"
            /\ UNCHANGED err
    /\ UNCHANGED <<tag, hType, srcOpened, inputs, rw, width, taskState, slots,
                   outOfOrder, got, idx, appended, numRecs>>
    /\ UNCHANGED batch

\* "with tables.open_file(hdf5File) as hdfObj": the arrays are read; the
\* uncorrected conversion scans a range array that does not vary in time
\* here; the velocity conversion sets numRecs here
OpenSource ==
    /\ pc = "open"
    /\ srcOpened' = TRUE
    /\ IF hType = "velocity" /\ ReadRaises(src.vel.unreadable)
       THEN Fail("NameError") /\ UNCHANGED rw
       ELSE IF hType = "uncorrected_ne_only" /\ src.rangeTime = 0
       THEN IF RangeWindow(src.ranges[1], src.lowerRange, src.upperRange).ok
            THEN /\ rw' = RangeWindow(src.ranges[1], src.lowerRange, src.upperRange)
                 /\ pc' = "create"
                 /\ UNCHANGED err
            ELSE Fail("IOError") /\ UNCHANGED rw
       ELSE pc' = "create" /\ UNCHANGED <<err, rw>>
    /\ numRecs' = IF hType = "velocity" THEN src.numTimes ELSE numRecs
    /\ UNCHANGED <<tag, hType, src, cedar, inputs, width, taskState, slots,
                   outOfOrder, got, idx, appended, fileNo>>
    /\ UNCHANGED batch

\* "if cedarObj == None: cedarObj = madrigal.cedar.MadrigalCedarFile(...)"
CreateCedar ==
    /\ pc = "create"
    /\ cedar' = IF cedar.created THEN cedar ELSE NewCedar
    /\ pc' = IF Parallel(hType) THEN "build"
             ELSE IF src.numTimes = 0 THEN "finaldump" ELSE "vloop"
    /\ idx' = 0
    /\ UNCHANGED <<err, tag, hType, src, srcOpened, inputs, rw, width, taskState,
                   slots, outOfOrder, got, appended, numRecs, fileNo>>
    /\ UNCHANGED batch

\* the loops that fill inputs; the uncorrected conversion scans the range
\* array of each time index when the ranges vary in time
BuildInputs ==
    /\ pc = "build"
    /\ IF \E t \in 0..(src.numTimes - 1) : ~WindowAt(t).ok
       THEN Fail("IOError") /\ UNCHANGED inputs
       ELSE /\ inputs' = [k \in 1..NumTasks |-> TupleAt(k - 1)]
            /\ pc' = "probe"
            /\ UNCHANGED err
    /\ UNCHANGED <<tag, hType, src, srcOpened, cedar, rw, width, taskState, slots,
                   outOfOrder, got, idx, appended, numRecs, fileNo>>
    /\ UNCHANGED batch

\* "dataRec = func(inputs[0]); datarecsize = len(dill.dumps(dataRec))", the
\* zeroed slots, and the submission of one job per tuple
Probe ==
    /\ pc = "probe"
    /\ IF Len(inputs) = 0
       THEN Fail("IndexError") /\ UNCHANGED <<width, slots, taskState>>
       ELSE IF Builder(hType, inputs[1]).kind = "raise"
       THEN Fail("BuilderError") /\ UNCHANGED <<width, slots, taskState>>
       ELSE /\ width' = DumpsLen(Builder(hType, inputs[1]))
            /\ slots' = [k \in 1..Len(inputs) |-> EmptySlot]
            /\ taskState' = [k \in 1..Len(inputs) |-> "queued"]
            /\ pc' = "collect"
            /\ UNCHANGED err
    /\ got' = 0
    /\ outOfOrder' = FALSE
    /\ UNCHANGED <<tag, hType, src, srcOpened, cedar, inputs, rw, idx, appended,
                   numRecs, fileNo>>
    /\ UNCHANGED batch

\* mp_wrapper(func, index, inputs, ...) in a worker, index from 1 here
TaskRun(i) ==
    /\ pc \in {"collect", "write", "finaldump", "close"}
    /\ i \in 1..Len(taskState)
    /\ taskState[i] = "queued"
    /\ LET dataRec == Builder(hType, inputs[i])
       IN  /\ taskState' = [taskState EXCEPT
                               ![i] = IF dataRec.kind = "raise" THEN "raised" ELSE "done"]
           /\ slots' = IF dataRec.kind = "rec"
                       THEN [slots EXCEPT ![SlotOfTask(i)] = StoreSlot(dataRec, width)]
                       ELSE slots
    /\ outOfOrder' = (outOfOrder \/ \E j \in 1..(i - 1) : taskState[j] = "queued")
    /\ UNCHANGED <<pc, err, tag, hType, src, srcOpened, cedar, inputs, rw, width,
                   got, idx, appended, numRecs, fileNo>>
    /\ UNCHANGED batch

\* a variant that does not wait for the job
JobReadyNoWait(st) == TRUE

\* p.get() returns or raises once its job has ended
JobReady(st) == st # "queued"

\* a variant that swallows the job's exception
JobRaisesNever(st) == FALSE

\* p.get() raises what its job raised
JobRaises(st) == st = "raised"

\* "results = [p.get() for p in jobs]", one job at a time
Collect ==
    /\ pc = "collect"
    /\ got < Len(taskState)
    /\ JobReady(taskState[got + 1])
    /\ IF JobRaises(taskState[got + 1])
       THEN Fail("TaskError") /\ UNCHANGED <<got, idx>>
       ELSE /\ got' = got + 1
            /\ pc' = IF got + 1 = Len(taskState) THEN "write" ELSE "collect"
            /\ idx' = 0
            /\ UNCHANGED err
    /\ UNCHANGED <<tag, hType, src, srcOpened, cedar, inputs, rw, width, taskState,
                   slots, outOfOrder, appended, numRecs, fileNo>>
    /\ UNCHANGED batch

\* one iteration of "for i in range(len(inputs))": decode slot i, append,
\* dump every DumpEvery iterations
WriteStep ==
    /\ pc = "write"
    /\ IF LoadsOk(slots[SlotOfIter(idx + 1)])
       THEN /\ appended' = Append(appended, slots[SlotOfIter(idx + 1)].rec)
            /\ cedar' = IF DumpsAt(idx)
                        THEN CedarDump(CedarAppend(cedar))
                        ELSE CedarAppend(cedar)
            /\ idx' = idx + 1
            /\ pc' = IF idx + 1 = Len(inputs) THEN "finaldump" ELSE "write"
            /\ UNCHANGED err
       ELSE Fail("LoadsError") /\ UNCHANGED <<appended, cedar, idx>>
    /\ UNCHANGED <<tag, hType, src, srcOpened, inputs, rw, width, taskState, slots,
                   outOfOrder, got, numRecs, fileNo>>
    /\ UNCHANGED batch

\* the record the velocity conversion builds for recIndex; its 2D fields
\* are params and its index field is always given as ind2DList=['cgm_lat']
VelocityRecord(recIndex) ==
    [kind |-> "rec", time |-> recIndex, beam |-> 0, ind2DList |-> <<"cgm_lat">>,
     rows |-> [k \in 1..Len(src.vel.bins) |->
                   VelocityRow(params(src.vel.byGeo, src.vel.unreadable), src.vel.bins[k])]]

\* one iteration of "for recIndex in range(self.numRecs)" of the velocity
\* conversion: build the record, append, dump every VelocityDumpEvery
VelocityStep ==
    /\ pc = "vloop"
    /\ IF src.bad = idx + 1
       THEN Fail("BuilderError") /\ UNCHANGED <<appended, cedar, idx>>
       ELSE /\ appended' = Append(appended, VelocityRecord(idx))
            /\ cedar' = IF VelocityDumpsAt(idx)
                        THEN CedarDump(CedarAppend(cedar))
                        ELSE CedarAppend(cedar)
            /\ idx' = idx + 1
            /\ pc' = IF idx + 1 = src.numTimes THEN "finaldump" ELSE "vloop"
            /\ UNCHANGED err
    /\ UNCHANGED <<tag, hType, src, srcOpened, inputs, rw, width, taskState, slots,
                   outOfOrder, got, numRecs, fileNo>>
    /\ UNCHANGED batch

\* "# dump remaining records": cedarObj.dump() after the loop
FinalDump ==
    /\ pc = "finaldump"
    /\ cedar' = CedarDump(cedar)
    /\ pc' = "close"
    /\ UNCHANGED <<err, tag, hType, src, srcOpened, inputs, rw, width, taskState,
                   slots, outOfOrder, got, idx, appended, numRecs, fileNo>>
    /\ UNCHANGED batch

\* cedarObj.close(), then "self.numRecs = self.numTimes * self.numBeams" in
\* the parallel conversions
CloseOut ==
    /\ pc = "close"
    /\ cedar' = CedarClose(cedar)
    /\ numRecs' = IF Parallel(hType) THEN src.numTimes * src.numBeams ELSE numRecs
    /\ pc' = "done"
    /\ UNCHANGED <<err, tag, hType, src, srcOpened, inputs, rw, width, taskState,
                   slots, outOfOrder, got, idx, appended, fileNo>>
    /\ UNCHANGED batch

Next ==
    \/ NewHandler
    \/ CreateMadrigalFile(SmallSources)
    \/ OpenSource
    \/ CreateCedar
    \/ BuildInputs
    \/ Probe
    \/ \E i \in 1..MaxTasks : TaskRun(i)
    \/ Collect
    \/ WriteStep
    \/ VelocityStep
    \/ FinalDump
    \/ CloseOut

\* one conversion (one createMad3File call), every schedule of its workers
Spec == Init /\ [][Next]_vars


\* the caller goes on to its next file, with the container it holds
NextFile ==
    /\ pc \in {"done", "failed"}
    /\ fileNo < MaxFiles
    /\ pc' = "idle"
    /\ err' = ""
    /\ tag' = <<>>
    /\ hType' = ""
    /\ src' = NoSource
    /\ srcOpened' = FALSE
    /\ inputs' = <<>>
    /\ rw' = NoRw
    /\ width' = 0
    /\ taskState' = <<>>
    /\ slots' = <<>>
    /\ outOfOrder' = FALSE
    /\ got' = 0
    /\ idx' = 0
    /\ appended' = <<>>
    /\ numRecs' = None
    /\ UNCHANGED <<cedar, fileNo>>
    /\ UNCHANGED batch

\* Tasks share nothing and each writes its own slot, so for what reaches the
\* container one schedule stands for all: each task runs when the driving
\* process waits for it.
NextAccum ==
    \/ NewHandler
    \/ CreateMadrigalFile(LongSources)
    \/ OpenSource
    \/ CreateCedar
    \/ BuildInputs
    \/ Probe
    \/ TaskRun(got + 1)
    \/ Collect
    \/ WriteStep
    \/ VelocityStep
    \/ FinalDump
    \/ CloseOut
    \/ NextFile

\* several conversions in a row, of long files, into containers the caller
\* may pass on from one conversion to the next
SpecAccum == Init /\ [][NextAccum]_vars

\* the uncorrected-density conversion of a one-tuple file
InitRange ==
    /\ pc = "open"
    /\ err = ""
    /\ tag = S_uncorrected
    /\ hType = "uncorrected_ne_only"
    /\ src \in RangeSources
    /\ srcOpened = FALSE
    /\ cedar = NoCedar
    /\ inputs = <<>>
    /\ rw = NoRw
    /\ width = 0
    /\ taskState = <<>>
    /\ slots = <<>>
    /\ outOfOrder = FALSE
    /\ got = 0
    /\ idx = 0
    /\ appended = <<>>
    /\ numRecs = None
    /\ fileNo = 1
    /\ BatchIdle

NextRange ==
    \/ OpenSource
    \/ CreateCedar
    \/ BuildInputs
    \/ Probe
    \/ TaskRun(1)
    \/ Collect
    \/ WriteStep
    \/ FinalDump
    \/ CloseOut

\* hdf5UncorrectedToMadrigal over every range array and cutoff pair
SpecRange == InitRange /\ [][NextRange]_vars

\* one conversion of each kind, of a file with few gates or bins
InitCells ==
    /\ pc = "open"
    /\ err = ""
    /\ hType \in {"standard", "uncorrected_ne_only", "velocity"}
    /\ tag = (IF hType = "standard" THEN S_standard
              ELSE IF hType = "velocity" THEN S_velocity ELSE S_uncorrected)
    /\ src \in CellSources(hType)
    /\ srcOpened = FALSE
    /\ cedar = NoCedar
    /\ inputs = <<>>
    /\ rw = NoRw
    /\ width = 0
    /\ taskState = <<>>
    /\ slots = <<>>
    /\ outOfOrder = FALSE
    /\ got = 0
    /\ idx = 0
    /\ appended = <<>>
    /\ numRecs = None
    /\ fileNo = 1
    /\ BatchIdle

NextCells ==
    \/ OpenSource
    \/ CreateCedar
    \/ BuildInputs
    \/ Probe
    \/ TaskRun(1)
    \/ Collect
    \/ WriteStep
    \/ VelocityStep
    \/ FinalDump
    \/ CloseOut

\* the three builders over every value of every field
SpecCells == InitCells /\ [][NextCells]_vars


-----------------------------------------------------------------------------
(* File versions: BatchExperiment.createNewExperimentFromIni and           *)
(* uploadExperiment name the Madrigal file of a File section               *)
(* <template><kindat2fname(kindat)>.<version as 3 digits>.h5 in OutPath.   *)
(* disk.versions holds the versions of that name that exist.               *)

Max(S) == CHOOSE x \in S : \A y \in S : x >= y

\* the last value of "for fcount in range(1,1000)"
LastVersion == 999

\* "for fcount in range(1,1000): ... if not os.path.exists(fullMadFilename):
\* break": the first version that does not exist, or the last value of the
\* loop variable when every one exists
FirstFree(existing) ==
    IF \E v \in 1..LastVersion : v \notin existing
    THEN Min({v \in 1..LastVersion : v \notin existing})
    ELSE LastVersion

\* the version createNewExperimentFromIni puts in the file name
CreateVersion(file_version, existing) ==
    IF file_version # None THEN file_version ELSE FirstFree(existing)

\* ver2use of uploadExperiment: allversions is the sorted glob of
\* <name>.???.h5, and "int(allversions[-1].split('.')[-2]) + 1" is one more
\* than the last of them
Ver2Use(file_version, existing) ==
    IF file_version # None THEN file_version
    ELSE IF existing # {} THEN Max(existing) + 1 ELSE 1

\* createNewExperimentFromIni for one File section: the name is chosen, then
\* createMad3File writes the file unless skip_existing finds it
CreateNewExperimentFromIni ==
    /\ calls < MaxCalls
    /\ \E file_version \in {None} \cup 1..MaxVersion, skip_existing \in BOOLEAN :
          LET v == CreateVersion(file_version, disk.versions)
              skipped == skip_existing /\ v \in disk.versions
          IN  /\ call' = [op |-> "create", file_version |-> file_version,
                          existing |-> disk.versions, version |-> v,
                          written |-> ~skipped]
              /\ disk' = [disk EXCEPT !.versions = IF skipped THEN @ ELSE @ \cup {v}]
    /\ calls' = calls + 1
    /\ UNCHANGED <<defaults, conv>>

\* uploadExperiment for one File section: "if not
\* os.path.exists(fullMadFilename): raise Exception(...)"
UploadExperiment ==
    /\ calls < MaxCalls
    /\ \E file_version \in {None} \cup 1..MaxVersion :
          LET v == Ver2Use(file_version, disk.versions)
          IN  call' = [op |-> "upload", file_version |-> file_version,
                       existing |-> disk.versions, version |-> v,
                       raised |-> v \notin disk.versions]
    /\ calls' = calls + 1
    /\ UNCHANGED <<disk, defaults, conv>>

\* an output directory with any versions of the file in it
InitVersions ==
    /\ pc = "idle" /\ err = "" /\ tag = <<>> /\ hType = "" /\ src = NoSource
    /\ srcOpened = FALSE /\ cedar = NoCedar /\ inputs = <<>> /\ rw = NoRw
    /\ width = 0 /\ taskState = <<>> /\ slots = <<>> /\ outOfOrder = FALSE
    /\ got = 0 /\ idx = 0 /\ appended = <<>> /\ numRecs = None /\ fileNo = 0
    /\ disk \in { [versions |-> e] : e \in SUBSET (1..MaxVersion) }
    /\ defaults = <<>>
    /\ call = NoCall
    /\ calls = 0

NextVersions ==
    \/ CreateNewExperimentFromIni
    \/ UploadExperiment

\* conversions and uploads of one File section, one after the other
SpecVersions == InitVersions /\ [][NextVersions]_vars


-----------------------------------------------------------------------------
(* parseExpId(expId), expId in the form YYYYMMDD.<inst_code>.<number>.     *)
(* Characters are their code points: chr(97) is 'a', chr(122) is 'z'.      *)

\* the trailing numbers and the other parts of the ids explored
ExpNumbers == (0 - 100)..30
ExpYears == {1899, 2023}
KnownInstCode == 61
ExpInstCodes == {KnownInstCode, 62}

\* chr(i) raises ValueError outside range(0x110000)
ChrRaises(i) == i < 0 \/ i > 1114111

\* "if num == 0: extChar = '' else: if num < 26: extChar = chr(96 + num)
\* else: extChar = chr(96 + int(num/26)) + chr(96 + num%26)"
ExtChar(num) ==
    IF num = 0 THEN <<>>
    ELSE IF num < 26 THEN <<96 + num>>
    ELSE <<96 + (num \div 26), 96 + (num % 26)>>

\* the exception parseExpId ends with ("" when it returns)
ParseRaises(expId) ==
    IF expId.year < 1900 THEN "ValueError"
    ELSE IF \E i \in 1..Len(ExtChar(expId.num)) : ChrRaises(ExtChar(expId.num)[i])
    THEN "ValueError"
    ELSE IF expId.instCode # KnownInstCode THEN "ValueError"
    ELSE ""

\* the last component of dirName: '%s%s' % (thisDate.strftime('%d%b%y').lower(), extChar)
DirName(expId) == [year |-> expId.year, date |-> expId.date, extChar |-> ExtChar(expId.num)]

\* parseExpId(expId)
ParseExpId ==
    /\ call.op = "args:parseExpId"
    /\ call' = [op |-> "parseExpId", expId |-> call.expId,
                raised |-> ParseRaises(call.expId),
                extChar |-> IF ParseRaises(call.expId) = "" THEN ExtChar(call.expId.num)
                            ELSE <<>>,
                dirName |-> IF ParseRaises(call.expId) = "" THEN DirName(call.expId)
                            ELSE <<>>]
    /\ calls' = calls + 1
    /\ UNCHANGED <<disk, defaults, conv>>

\* an experiment id about to be parsed
InitExpId ==
    /\ pc = "idle" /\ err = "" /\ tag = <<>> /\ hType = "" /\ src = NoSource
    /\ srcOpened = FALSE /\ cedar = NoCedar /\ inputs = <<>> /\ rw = NoRw
    /\ width = 0 /\ taskState = <<>> /\ slots = <<>> /\ outOfOrder = FALSE
    /\ got = 0 /\ idx = 0 /\ appended = <<>> /\ numRecs = None /\ fileNo = 0
    /\ disk = NoDisk
    /\ defaults = <<>>
    /\ call \in { [op |-> "args:parseExpId",
                    expId |-> [year |-> y, date |-> 101, instCode |-> c, num |-> n]] :
                      y \in ExpYears, c \in ExpInstCodes, n \in ExpNumbers }
    /\ calls = 0

NextExpId == ParseExpId

\* parseExpId over every id
SpecExpId == InitExpId /\ [][NextExpId]_vars


-----------------------------------------------------------------------------
(* Record-type codes: MadrigalIni.determine_kindat (create_madrigal_ini.py) *)
(* encodes a file's conversion type, pulse type and integration time as    *)
(* kindat; kindat2fname (madrigal3_amisr.py) decodes kindat for the file   *)
(* name.  A source file name <date>_<pulse>_<intg>-...-<final intg>.h5 is  *)
(* given by its parts.                                                     *)

KindatTypes == {"uncorrected_ne_only", "standard", "velocity"}
PulseTypes == {"lp", "ac", "acfl", "bc", "mc", "xx"}
IntTimes == {"1min", "2min", "3min", "5min", "10min", "15min", "20min",
             "60sec", "120sec", "180sec", "300sec", "600sec", "900sec", "1200sec",
             "30sec", "15sec", "4sec", "7min"}
BaseIntgs == {"1min", "3min", "5min", "20min", "30sec"}

\* int_time of determine_kindat: the part after the pulse type, or for a
\* velocity file the last '-' part, with the "known typo" fix
IntTimeOf(kindat_type, base_intg, final_intg) ==
    IF kindat_type = "velocity"
    THEN (IF base_intg = "3min" /\ final_intg = "60sec" THEN "180sec" ELSE final_intg)
    ELSE base_intg

\* pc of determine_kindat (0: the function raises)
PcOf(kindat_type, sub_type) ==
    IF kindat_type = "uncorrected_ne_only" THEN 100
    ELSE IF kindat_type = "standard"
         THEN (IF sub_type \in {"lp", "ac", "acfl"} THEN 200 ELSE 0)
    ELSE IF kindat_type = "velocity" THEN 300
    ELSE 0

\* the steps "pt += ..." for base_intg
BaseIntgStep(base_intg) ==
    IF base_intg = "1min" THEN 1
    ELSE IF base_intg = "2min" THEN 2
    ELSE IF base_intg = "3min" THEN 3
    ELSE IF base_intg = "5min" THEN 4
    ELSE IF base_intg = "10min" THEN 5
    ELSE IF base_intg = "15min" THEN 6
    ELSE IF base_intg = "20min" THEN 7
    ELSE 0

\* pt of determine_kindat (0: the function raises, or for a velocity file
\* of an unknown pulse type reads pt before it is assigned)
PtOf(kindat_type, pulse_type, base_intg) ==
    IF kindat_type \in {"uncorrected_ne_only", "standard"}
    THEN (IF pulse_type = "lp" THEN 1
          ELSE IF pulse_type \in {"ac", "acfl"} THEN 2
          ELSE IF pulse_type \in {"bc", "mc"} THEN 3
          ELSE 0)
    ELSE (IF pulse_type = "lp" THEN 10 + BaseIntgStep(base_intg)
          ELSE IF pulse_type \in {"ac", "acfl"} THEN 30 + BaseIntgStep(base_intg)
          ELSE IF pulse_type \in {"bc", "mc"} THEN 50 + BaseIntgStep(base_intg)
          ELSE 0)

\* it of determine_kindat (0: the function raises)
ItOf(int_time) ==
    IF int_time \in {"1min", "60sec"} THEN 1
    ELSE IF int_time \in {"2min", "120sec"} THEN 2
    ELSE IF int_time \in {"3min", "180sec"} THEN 3
    ELSE IF int_time \in {"5min", "300sec"} THEN 4
    ELSE IF int_time \in {"10min", "600sec"} THEN 5
    ELSE IF int_time \in {"15min", "900sec"} THEN 6
    ELSE IF int_time \in {"20min", "1200sec"} THEN 7
    ELSE IF int_time = "30sec" THEN 8
    ELSE IF int_time = "15sec" THEN 9
    ELSE IF int_time = "4sec" THEN 10
    ELSE 0

\* determine_kindat: tkindat = pc * 10000 + pt * 100 + it, or an exception
determine_kindat(kindat_type, pulse_type, base_intg, final_intg) ==
    LET pcv == PcOf(kindat_type, pulse_type)
        ptv == PtOf(kindat_type, pulse_type, base_intg)
        itv == ItOf(IntTimeOf(kindat_type, base_intg, final_intg))
    IN  IF pcv = 0 \/ ptv = 0 \/ itv = 0
        THEN [raised |-> "Exception", kindat |-> None]
        ELSE [raised |-> "", kindat |-> pcv * 10000 + ptv * 100 + itv]

\* the keys of it2min
It2MinKeys == (1..20) \cup {25, 30, 35, 40, 45, 60, 64, 68, 72, 76, 80}

\* it2min[it] in seconds (it2min holds minutes)
It2Sec(it) ==
    IF it \in 1..20 THEN 60 * it
    ELSE IF it = 25 THEN 60 * 30
    ELSE IF it = 30 THEN 60 * 45
    ELSE IF it = 35 THEN 60 * 60
    ELSE IF it = 40 THEN 60 * 90
    ELSE IF it = 45 THEN 60 * 120
    ELSE IF it = 60 THEN 45
    ELSE IF it = 64 THEN 30
    ELSE IF it = 68 THEN 15
    ELSE IF it = 72 THEN 10
    ELSE IF it = 76 THEN 5
    ELSE 4

\* it_desc: "NNsec" below one minute, "NNmin" from one minute on
ItDesc(secs) ==
    IF secs < 60 THEN [n |-> secs, unit |-> "sec"] ELSE [n |-> secs \div 60, unit |-> "min"]

\* kindat2fname(kindat): the parts of "_{pt_desc}_{pc_desc}_{it_desc}", or an
\* exception
kindat2fname(kindat) ==
    LET pcv == kindat \div 10000
        ptv == (kindat - 10000 * pcv) \div 100
        itv == kindat - 10000 * pcv - 100 * ptv
    IN  IF pcv \notin {100, 200, 300} THEN [raised |-> "Exception"]
        ELSE IF ptv \notin {1, 2, 3} THEN [raised |-> "Exception"]
        ELSE IF itv \notin It2MinKeys THEN [raised |-> "KeyError"]
        ELSE [raised |-> "",
              pt_desc |-> IF ptv = 1 THEN "lp" ELSE IF ptv = 2 THEN "ac" ELSE "bc",
              pc_desc |-> IF pcv = 100 THEN "nenotr" ELSE IF pcv = 200 THEN "fit" ELSE "vvels",
              it_desc |-> ItDesc(It2Sec(itv))]

\* MadrigalIni.add_file: the kindat of a File section
DetermineKindat ==
    /\ call.op = "args:determine_kindat"
    /\ call' = [op |-> "determine_kindat", file |-> call.file,
                tkindat |-> determine_kindat(call.file.type, call.file.pulse,
                                             call.file.intg, call.file.final)]
    /\ calls' = calls + 1
    /\ UNCHANGED <<disk, defaults, conv>>

\* createNewExperimentFromIni: the file name from the kindat of the section
Kindat2Fname ==
    /\ call.op = "determine_kindat"
    /\ call.tkindat.raised = ""
    /\ call' = [op |-> "kindat2fname", file |-> call.file, tkindat |-> call.tkindat,
                fname |-> kindat2fname(call.tkindat.kindat)]
    /\ calls' = calls + 1
    /\ UNCHANGED <<disk, defaults, conv>>

\* a source file about to be added to the ini
InitKindat ==
    /\ pc = "idle" /\ err = "" /\ tag = <<>> /\ hType = "" /\ src = NoSource
    /\ srcOpened = FALSE /\ cedar = NoCedar /\ inputs = <<>> /\ rw = NoRw
    /\ width = 0 /\ taskState = <<>> /\ slots = <<>> /\ outOfOrder = FALSE
    /\ got = 0 /\ idx = 0 /\ appended = <<>> /\ numRecs = None /\ fileNo = 0
    /\ disk = NoDisk
    /\ defaults = <<>>
    /\ call \in { [op |-> "args:determine_kindat",
                    file |-> [type |-> t, pulse |-> p, intg |-> b, final |-> f]] :
                      t \in {"uncorrected_ne_only", "standard"}, p \in PulseTypes,
                      b \in IntTimes, f \in {""} }
               \cup
               { [op |-> "args:determine_kindat",
                    file |-> [type |-> "velocity", pulse |-> p, intg |-> b, final |-> f]] :
                      p \in PulseTypes, b \in BaseIntgs, f \in IntTimes }
    /\ calls = 0

NextKindat ==
    \/ DetermineKindat
    \/ Kindat2Fname

\* a file's kindat, then its Madrigal file name
SpecKindat == InitKindat /\ [][NextKindat]_vars


-----------------------------------------------------------------------------
(* MadrigalIni.build (create_madrigal_ini.py): the File sections of the    *)
(* ini, from the files of the experiment directory.  A file                *)
(* <date>_<pulse>_<mins>min-<kind>.h5 is given by pulse, mins and kind;    *)
(* the vvels files are those of derivedParams/vvelsLat.                    *)

\* the files an experiment directory may hold
IniFiles ==
    { [pulse |-> "bc", mins |-> 5, kind |-> "fitcal"],
      [pulse |-> "ac", mins |-> 5, kind |-> "fitcal"],
      [pulse |-> "lp", mins |-> 5, kind |-> "fitcal"],
      [pulse |-> "lp", mins |-> 1, kind |-> "fitcal"],
      [pulse |-> "bc", mins |-> 5, kind |-> "cal"],
      [pulse |-> "ac", mins |-> 5, kind |-> "cal"],
      [pulse |-> "lp", mins |-> 5, kind |-> "cal"],
      [pulse |-> "lp", mins |-> 5, kind |-> "vvels"],
      [pulse |-> "lp", mins |-> 1, kind |-> "vvels"] }

\* glob.glob(os.path.join(self.expdir_path, '*-<kind>.h5'))
Glob(files, kind) == { f \in files : f.kind = kind }

\* pulsetype_order(x): the index of the pulse type in
\* ["_bc_","_mc_","_ac_","_acfl_","_lp_"]
pulsetype_order(f) ==
    IF f.pulse = "bc" THEN 0 ELSE IF f.pulse = "mc" THEN 1 ELSE IF f.pulse = "ac" THEN 2
    ELSE IF f.pulse = "acfl" THEN 3 ELSE 4

\* fname_seconds(x)
fname_seconds(f) == 60 * f.mins

\* the place of a file name in sorted(...) without a key: by pulse type as a
\* string, then by the digits of the integration time
NameOrder(f) ==
    (IF f.pulse = "ac" THEN 1 ELSE IF f.pulse = "bc" THEN 2 ELSE 3) * 10000 + f.mins

\* the key (pulsetype_order(x), fname_seconds(x)) as one number
FittedOrder(f) == pulsetype_order(f) * 10000 + fname_seconds(f)

\* sorted(S, key=...) for keys that differ: order 1 is FittedOrder, 2 is
\* fname_seconds, 3 is NameOrder
KeyOf(f, order) ==
    IF order = 1 THEN FittedOrder(f) ELSE IF order = 2 THEN fname_seconds(f) ELSE NameOrder(f)

RECURSIVE Sorted(_, _)
Sorted(S, order) ==
    IF S = {} THEN <<>>
    ELSE LET first == CHOOSE f \in S : \A g \in S : KeyOf(f, order) <= KeyOf(g, order)
         IN  <<first>> \o Sorted(S \ {first}, order)

\* fitted_h5files: the -fitcal files, or the -cal files when there is none
fitted_h5files(files) ==
    IF Glob(files, "fitcal") # {} THEN Sorted(Glob(files, "fitcal"), 1)
    ELSE Sorted(Glob(files, "cal"), 1)

\* history_h5files: the -cal files
history_h5files(files) == Sorted(Glob(files, "cal"), 3)

\* vvels_h5files
vvels_h5files(files) == Sorted(Glob(files, "vvels"), 2)

\* the add_file calls of one pass "for h5file in fitted_h5files +
\* history_h5files: if <pulse type of h5file> == ptype2do: ..."
RECURSIVE AddPass(_, _, _)
AddPass(h5files, ptype2do, types) ==
    IF h5files = <<>> THEN <<>>
    ELSE (IF Head(h5files).pulse = ptype2do
          THEN [k \in 1..Len(types) |-> [hdf5Filename |-> Head(h5files), type |-> types[k]]]
          ELSE <<>>)
         \o AddPass(Tail(h5files), ptype2do, types)

\* the add_file call of each vvels file
RECURSIVE AddVelocity(_)
AddVelocity(h5files) ==
    IF h5files = <<>> THEN <<>>
    ELSE <<[hdf5Filename |-> Head(h5files), type |-> "velocity"]>> \o AddVelocity(Tail(h5files))

\* the File sections build adds, in order: section k is File<k>, since
\* add_file names its section 'File%d' % self.filenum and then adds 1 to
\* self.filenum
FileSections(files) ==
    LET both == fitted_h5files(files) \o history_h5files(files)
    IN  AddPass(both, "bc", <<"uncorrected_ne_only">>)
        \o AddPass(both, "ac", <<"uncorrected_ne_only", "standard">>)
        \o AddPass(both, "lp", <<"uncorrected_ne_only", "standard">>)
        \o AddVelocity(vvels_h5files(files))

\* MadrigalIni.build()
Build ==
    /\ call.op = "args:build"
    /\ call' = IF fitted_h5files(disk.files) = <<>>
               THEN [op |-> "build", raised |-> "Exception", sections |-> <<>>]
               ELSE [op |-> "build", raised |-> "", sections |-> FileSections(disk.files)]
    /\ calls' = calls + 1
    /\ UNCHANGED <<disk, defaults, conv>>

\* an experiment directory with any of the files
InitIni ==
    /\ pc = "idle" /\ err = "" /\ tag = <<>> /\ hType = "" /\ src = NoSource
    /\ srcOpened = FALSE /\ cedar = NoCedar /\ inputs = <<>> /\ rw = NoRw
    /\ width = 0 /\ taskState = <<>> /\ slots = <<>> /\ outOfOrder = FALSE
    /\ got = 0 /\ idx = 0 /\ appended = <<>> /\ numRecs = None /\ fileNo = 0
    /\ disk \in { [files |-> fs] : fs \in SUBSET IniFiles }
    /\ defaults = <<>>
    /\ call = [op |-> "args:build"]
    /\ calls = 0

NextIni == Build

\* MadrigalIni.build over every experiment directory
SpecIni == InitIni /\ [][NextIni]_vars


-----------------------------------------------------------------------------
(* update_typetab(kindat, ckindat): typeTab.txt holds one line             *)
(* "<kindat>,<description>" per record type; disk.typetab is the sequence  *)
(* of its lines as pairs.                                                  *)

\* the kindats and descriptions explored
TabKindats == {1000101, 2000104, 3001404}
TabDescs == {"Ne From Power", "Fitted"}

\* existing_kindats and existing_ckindats as read from the lines
KindatsOf(table) == [i \in 1..Len(table) |-> table[i][1]]
CkindatsOf(table) == [i \in 1..Len(table) |-> table[i][2]]

\* sorted(...) of pairs by key=lambda pair: pair[0]: a stable sort, equal
\* keys keep their order
RECURSIVE StableSort(_)
StableSort(pairs) ==
    IF pairs = <<>> THEN <<>>
    ELSE LET i == CHOOSE j \in 1..Len(pairs) :
                     /\ \A k \in 1..Len(pairs) : pairs[j][1] <= pairs[k][1]
                     /\ \A k \in 1..(j - 1) : pairs[k][1] # pairs[j][1]
         IN  <<pairs[i]>>
             \o StableSort([k \in 1..(Len(pairs) - 1) |->
                                IF k < i THEN pairs[k] ELSE pairs[k + 1]])

\* a variant that sorts the kindats and leaves the descriptions in the
\* order of the file
SortedKindatsOnly(kindats, ckindats) ==
    LET sorted_kindats == StableSort([i \in 1..Len(kindats) |-> <<kindats[i], "">>])
    IN  [i \in 1..Len(kindats) |-> <<sorted_kindats[i][1], ckindats[i]>>]

\* zip(sorted_kindats, sorted_ckindats): sorted_kindats is
\* sorted(existing_kindats), sorted_ckindats the descriptions of
\* sorted(zip(existing_kindats, existing_ckindats), key=pair[0])
SortedLines(kindats, ckindats) ==
    LET sorted_kindats == StableSort([i \in 1..Len(kindats) |-> <<kindats[i], "">>])
        sorted_pairs == StableSort([i \in 1..Len(kindats) |-> <<kindats[i], ckindats[i]>>])
    IN  [i \in 1..Len(kindats) |-> <<sorted_kindats[i][1], sorted_pairs[i][2]>>]

\* the lines of the file after update_typetab(kindat, ckindat)
update_typetab(kindat, ckindat, table) ==
    IF \E i \in 1..Len(table) : KindatsOf(table)[i] = kindat
    THEN table
    ELSE SortedLines(Append(KindatsOf(table), kindat), Append(CkindatsOf(table), ckindat))

\* createNewExperimentFromIni: update_typetab(kindat, ckindat) for a File
\* section
UpdateTypetab ==
    /\ calls < MaxCalls
    /\ \E kindat \in TabKindats, ckindat \in TabDescs :
          /\ call' = [op |-> "update_typetab", kindat |-> kindat, ckindat |-> ckindat,
                      before |-> disk.typetab,
                      after |-> update_typetab(kindat, ckindat, disk.typetab)]
          /\ disk' = [disk EXCEPT !.typetab = update_typetab(kindat, ckindat, disk.typetab)]
    /\ calls' = calls + 1
    /\ UNCHANGED <<defaults, conv>>

\* a type table with any lines, in any order
InitTypetab ==
    /\ pc = "idle" /\ err = "" /\ tag = <<>> /\ hType = "" /\ src = NoSource
    /\ srcOpened = FALSE /\ cedar = NoCedar /\ inputs = <<>> /\ rw = NoRw
    /\ width = 0 /\ taskState = <<>> /\ slots = <<>> /\ outOfOrder = FALSE
    /\ got = 0 /\ idx = 0 /\ appended = <<>> /\ numRecs = None /\ fileNo = 0
    /\ disk \in { [typetab |-> t] :
                     t \in UNION { SeqsOf(TabKindats \X TabDescs, n) : n \in 0..MaxTable } }
    /\ defaults = <<>>
    /\ call = NoCall
    /\ calls = 0

NextTypetab == UpdateTypetab

\* update_typetab, called for one File section after the other
SpecTypetab == InitTypetab /\ [][NextTypetab]_vars

-----------------------------------------------------------------------------
(* Plot link files: get_unique_fname and the methods that call it.  A file
   plotNNN.html is kept as its number NNN; disk.plots gives the numbers of
   the plot files of each experiment directory, and defaults is the list
   object that is the default value of get_unique_fname's plotBasenames. *)

ExpPaths == {"expA", "expB"}

Elems(list) == { list[i] : i \in 1..Len(list) }

\* the elements of a set of numbers as a list (glob's result; the order of
\* the list has no part in the name that is chosen)
RECURSIVE AscSeq(_)
AscSeq(S) == IF S = {} THEN <<>> ELSE <<Min(S)>> \o AscSeq(S \ {Min(S)})

\* the while loop: the first plotNum from 0 whose name is not in the list
Lowest(used) ==
    CHOOSE n \in 0..Cardinality(used) :
        n \notin used /\ \A m \in 0..(n - 1) : m \in used

\* get_unique_fname: the plot files of expPath are appended to the list it
\* was given, and the list is returned with the name
get_unique_fname(existing, plotBasenames) ==
    LET names == plotBasenames \o AscSeq(existing)
    IN  [plotNum |-> Lowest(Elems(names)), plotBasenames |-> names]

\* one call of get_unique_fname, as its caller made it
Made(expPath, given, passed, existing, plotNum) ==
    [expPath |-> expPath, given |-> given, passed |-> passed,
     existing |-> existing, plotNum |-> plotNum]

\* createLinkBack2amisr: a name from get_unique_fname(expPath), then the file
CreateLinkBack2amisr ==
    /\ calls < MaxCalls
    /\ \E expPath \in ExpPaths :
          LET existing == disk.plots[expPath]
              r == get_unique_fname(existing, defaults)
          IN  /\ defaults' = r.plotBasenames
              /\ disk' = [disk EXCEPT !.plots[expPath] = @ \cup {r.plotNum}]
              /\ call' = [op |-> "links",
                          made |-> <<Made(expPath, FALSE, <<>>, existing, r.plotNum)>>]
    /\ calls' = calls + 1
    /\ UNCHANGED conv

\* createPlotLinks: a name from get_unique_fname(expPath); for a geometry
\* plot createLink takes a name from get_unique_fname(expPath, [plotName])
\* and writes its file; the file of createPlotLinks is written at the end
CreatePlotLinks ==
    /\ calls < MaxCalls
    /\ \E expPath \in ExpPaths, geometry \in BOOLEAN :
          LET existing == disk.plots[expPath]
              r == get_unique_fname(existing, defaults)
              link == get_unique_fname(existing, <<r.plotNum>>)
          IN  /\ defaults' = r.plotBasenames
              /\ disk' = [disk EXCEPT !.plots[expPath] =
                              @ \cup {r.plotNum}
                                \cup (IF geometry THEN {link.plotNum} ELSE {})]
              /\ call' = [op |-> "links",
                          made |-> <<Made(expPath, FALSE, <<>>, existing, r.plotNum)>>
                                   \o (IF geometry
                                       THEN <<Made(expPath, TRUE, <<r.plotNum>>,
                                                   existing, link.plotNum)>>
                                       ELSE <<>>)]
    /\ calls' = calls + 1
    /\ UNCHANGED conv

\* experiment directories with any plot files, in a fresh process
InitPlots ==
    /\ pc = "idle" /\ err = "" /\ tag = <<>> /\ hType = "" /\ src = NoSource
    /\ srcOpened = FALSE /\ cedar = NoCedar /\ inputs = <<>> /\ rw = NoRw
    /\ width = 0 /\ taskState = <<>> /\ slots = <<>> /\ outOfOrder = FALSE
    /\ got = 0 /\ idx = 0 /\ appended = <<>> /\ numRecs = None /\ fileNo = 0
    /\ disk \in { [plots |-> p] : p \in [ExpPaths -> SUBSET (0..(MaxPlots - 1))] }
    /\ defaults = <<>>
    /\ call = NoCall
    /\ calls = 0

NextPlots == CreateLinkBack2amisr \/ CreatePlotLinks

\* the link files written for one experiment after the other by one process
SpecPlots == InitPlots /\ [][NextPlots]_vars



-----------------------------------------------------------------------------
(* Properties *)

AllTasksEnded == \A k \in 1..Len(taskState) : taskState[k] # "queued"

\* C1: in the standard and uncorrected-density conversions the tuples are
\* enumerated time-major (tuple k, from 0, is time k div numBeams, beam
\* k mod numBeams), and the records appended to the container are at every
\* moment the records of the first tuples in that order, each once, and of
\* all the tuples once the output loop has ended, whatever the order in which
\* the worker tasks completed.
C1_AppendInSubmissionOrder ==
    Parallel(hType) =>
        /\ \A k \in 1..Len(inputs) :
              inputs[k].time * src.numBeams + inputs[k].beam = k - 1
              /\ inputs[k].beam < src.numBeams
        /\ Len(appended) <= Len(inputs)
        /\ \A k \in 1..Len(appended) : appended[k] = Builder(hType, inputs[k])
        /\ (pc \in {"finaldump", "close", "done"} =>
               Len(appended) = src.numTimes * src.numBeams)

\* C1 witness: a conversion of 2 x 2 tuples has ended with all four records
\* appended, after tasks that completed out of submission order
C1_Witness ==
    /\ Parallel(hType)
    /\ pc = "done"
    /\ src.numTimes = 2 /\ src.numBeams = 2
    /\ Len(appended) = 4
    /\ outOfOrder

\* a tuple of a standard file whose range values are all NaN
EmptyTuple(k) == \A g \in 1..Len(RangeAt(TimeOf(k))) : RangeAt(TimeOf(k))[g] = NaN

\* the records of the tuples from k (from 0) on that have a valid range
RECURSIVE NonEmptyRecords(_)
NonEmptyRecords(k) ==
    IF k >= src.numTimes * src.numBeams THEN <<>>
    ELSE IF EmptyTuple(k) THEN NonEmptyRecords(k + 1)
    ELSE <<set_fitted_data_rec(TupleAt(k))>> \o NonEmptyRecords(k + 1)

\* C2: a standard conversion in which some tuple has only NaN ranges (and no
\* builder raises) does not fail: it completes, and what it appended is the
\* records of the other tuples, in order.
C2_EmptyTupleDropped ==
    ( /\ hType = "standard"
      /\ srcOpened
      /\ src.bad = 0
      /\ \E k \in 0..(src.numTimes * src.numBeams - 1) : EmptyTuple(k) )
    => /\ pc # "failed"
       /\ (pc = "done" => appended = NonEmptyRecords(0))

\* C3: a container is closed at most once, and nothing is appended to it or
\* dumped into it once it is closed, over the conversions that write to it.
C3_ClosedOnceNoLateWrite == cedar.closes <= 1 /\ ~cedar.late

\* C4: in the parallel conversions a record is appended only by the output
\* loop of the driving process and only when every task of the batch has
\* ended; a step of a worker task changes no slot but the task's own and
\* leaves the container alone.
C4_AppendAfterAllTasks ==
    [][ /\ (Parallel(hType) /\ appended' # appended) =>
              (pc = "write" /\ Len(taskState) = Len(inputs) /\ AllTasksEnded)
        /\ \A i \in 1..Len(taskState) :
              (Len(taskState') = Len(taskState)
               /\ taskState[i] = "queued" /\ taskState'[i] # "queued") =>
                  /\ cedar' = cedar
                  /\ appended' = appended
                  /\ \A j \in 1..Len(slots) : j # i => slots'[j] = slots[j] ]_vars

\* C4 witness: the output loop has appended while the tasks had completed
\* out of submission order
C4_Witness ==
    /\ Parallel(hType)
    /\ pc = "write"
    /\ Len(appended) >= 1
    /\ Len(taskState) >= 3
    /\ outOfOrder

\* C5: once a worker task of a parallel conversion has raised, the task
\* stays failed (it is not run again), nothing is appended, the container is
\* not closed, and the conversion can only wait for its jobs or fail with
\* the task's error; it never reaches the final dump and close.
C5_TaskErrorIsFatal ==
    [][ \A k \in 1..Len(taskState) :
          (Parallel(hType) /\ taskState[k] = "raised") =>
              /\ pc' \in {"collect", "failed"}
              /\ (pc' = "failed" => err' = "TaskError")
              /\ Len(taskState') = Len(taskState)
              /\ taskState'[k] = "raised"
              /\ appended' = <<>>
              /\ cedar'.closes = 0 ]_vars

\* C5 witness: the conversion failed with the error of a task, after another
\* task had written its record
C5_Witness ==
    /\ Parallel(hType)
    /\ pc = "failed" /\ err = "TaskError"
    /\ \E k \in 1..Len(taskState) : taskState[k] = "raised"
    /\ \E j \in 1..Len(slots) : slots[j].len > 0

\* C6: the records appended and not yet dumped never number more than the
\* longest dump period (100), and at each close of the container no
\* appended record is left undumped.
C6_BoundedPending ==
    [][ /\ cedar'.pending <= VelocityDumpEvery
        /\ (cedar'.closes > cedar.closes => cedar.pending = 0) ]_vars

\* C6 witness: a conversion that appended more records than a dump period
\* has closed its container
C6_Witness ==
    /\ pc = "done"
    /\ Len(appended) > VelocityDumpEvery
    /\ cedar.closes >= 1
    /\ cedar.pending = 0

\* C7: a handler built for any of the four tags runs a conversion; the
\* dispatch step of createMadrigalFile does not fail.
C7_EveryTagDispatches ==
    (hType \in {"standard", "uncorrected_ne_only", "velocity", "velocityAlt"}
     /\ fileNo > 0)
    => err # "NameError"

RecognizedTags == {S_standard, S_uncorrected, S_velocity, S_velocityalt}

\* C8: for a tag that is, whatever its case, none of the recognized ones,
\* hdf5Handler(hdf5Type) raises ValueError, and this file's source is not
\* opened, no container is created and nothing is appended.
C8_UnknownTagFailsFirst ==
    (pc # "idle" /\ StrLower(tag) \notin RecognizedTags) =>
        /\ pc = "failed"
        /\ err = "ValueError"
        /\ hType = ""
        /\ ~srcOpened
        /\ ~cedar.created
        /\ appended = <<>>

\* C8 witness: the handler was asked for the unknown tag 'standards'
C8_Witness ==
    /\ tag = S_standard \o <<"s">>
    /\ pc = "failed"
    /\ err = "ValueError"

\* the gate value x (meters) lies in the window lowerRange <= r < upperRange
InWindow(x) ==
    /\ (src.lowerRange = None \/ (x # NaN /\ x >= 1000 * src.lowerRange))
    /\ (src.upperRange = None \/ (x # NaN /\ x < 1000 * src.upperRange))

\* C9: an uncorrected-density conversion of a file none of whose gates lies
\* in the window fails with IOError before it builds a record and appends
\* nothing.
C9_EmptyWindowRaises ==
    (hType = "uncorrected_ne_only"
     /\ \A g \in 1..Len(src.ranges[1]) : ~InWindow(src.ranges[1][g]))
    => /\ pc \in {"open", "create", "build", "failed"}
       /\ (pc = "failed" => err = "IOError")
       /\ appended = <<>>

Ascending(r) ==
    /\ \A g \in 1..Len(r) : r[g] # NaN
    /\ \A g \in 1..(Len(r) - 1) : r[g] <= r[g + 1]

\* the gates of r from position g on that lie in the window, in km
RECURSIVE WindowGates(_, _)
WindowGates(r, g) ==
    IF g > Len(r) THEN <<>>
    ELSE IF InWindow(r[g]) THEN <<r[g] \div 1000>> \o WindowGates(r, g + 1)
    ELSE WindowGates(r, g + 1)

\* the 2D column 'range' of a record
RangeColumn(x) == [k \in 1..Len(x.rows) |-> x.rows[k].range]

\* C10: for an ascending range array with a gate in the window, the
\* conversion does not fail, and the record of a tuple holds exactly the gates
\* in the window, in km and in ascending order, row k (from 0) holding gate
\* lowerRangeIndex + k.
C10_WindowRows ==
    (hType = "uncorrected_ne_only"
     /\ Ascending(src.ranges[1])
     /\ \E g \in 1..Len(src.ranges[1]) : InWindow(src.ranges[1][g]))
    => /\ pc # "failed"
       /\ \A n \in 1..Len(appended) :
             /\ RangeColumn(appended[n]) = WindowGates(src.ranges[1], 1)
             /\ \A k \in 1..Len(appended[n].rows) :
                   /\ appended[n].rows[k].range * 1000
                        = src.ranges[1][inputs[n].lowerRangeIndex + k]
                   /\ (k > 1 => appended[n].rows[k - 1].range <= appended[n].rows[k].range)
       /\ \A n \in 1..Len(slots) :
             slots[n].len > 0 => RangeColumn(slots[n].rec) = WindowGates(src.ranges[1], 1)

\* C10 witness: the spec's scenario in small: gates 50, 100, 150 km with
\* lowerRange = 100 and upperRange = 150 give the one row 100 km
C10_Witness ==
    /\ pc = "done"
    /\ src.ranges[1] = <<50000, 100000, 150000>>
    /\ src.lowerRange = 100
    /\ src.upperRange = 150
    /\ Len(appended) = 1
    /\ RangeColumn(appended[1]) = <<100>>

-----------------------------------------------------------------------------
(* The cells of the records *)

\* the cell holds a number
Numeric(c) == c \notin {None, NaN, Missing, Assumed, Unset, NegInf}

\* the range array of the tuple of the n-th appended record
RangeOfRecord(n) == inputs[n].rangeValue

\* the gate (1-based) of the k-th range of r that is not NaN
NthValidGate(r, k) ==
    CHOOSE g \in 1..Len(r) :
        r[g] # NaN /\ Cardinality({h \in 1..g : r[h] # NaN}) = k

\* the gate (1-based) that row k (1-based) of the n-th appended record of a
\* parallel conversion shows
GateOfRecordRow(n, k) ==
    IF hType = "standard" THEN NthValidGate(RangeOfRecord(n), k)
    ELSE inputs[n].lowerRangeIndex + k

\* the values the source holds at that gate
ValuesOfRecordRow(n, k) == inputs[n].gates[GateOfRecordRow(n, k)]

\* C11: every row of every 2D field of a built record is set, and the number
\* of rows is the number of valid gates of the record: the ranges that are
\* not NaN (fitted), the gates of an ascending range array that lie in the
\* cutoff window (uncorrected), the bins (velocity).
C11_RowsMatchValidGates ==
    \A n \in 1..Len(appended) :
        /\ \A k \in 1..Len(appended[n].rows) :
              \A f \in DOMAIN appended[n].rows[k] : appended[n].rows[k][f] # Unset
        /\ hType = "standard" =>
              Len(appended[n].rows)
                = Cardinality({g \in 1..Len(RangeOfRecord(n)) : RangeOfRecord(n)[g] # NaN})
        /\ (hType = "uncorrected_ne_only" /\ Ascending(RangeOfRecord(n))) =>
              Len(appended[n].rows)
                = Cardinality({g \in 1..Len(RangeOfRecord(n)) : InWindow(RangeOfRecord(n)[g])})
        /\ hType = "velocity" => Len(appended[n].rows) = Len(src.vel.bins)

\* C12: in every row of a fitted record ne and dne are the source's numbers
\* when minNe <= ne <= maxNe, minNeErr < dne <= maxNeErr and neither is NaN,
\* and both are missing otherwise.
C12_NeValidity ==
    hType = "standard" =>
    \A n \in 1..Len(appended) : \A k \in 1..Len(appended[n].rows) :
        LET g == ValuesOfRecordRow(n, k)
            row == appended[n].rows[k]
            neOk == g.ne # NaN /\ g.ne >= minNe /\ g.ne <= maxNe
            dneOk == g.dne # NaN /\ g.dne > minNeErr /\ g.dne <= maxNeErr
        IN  /\ (neOk /\ dneOk) => (row.ne = g.ne /\ row.dne = g.dne /\ Numeric(row.ne)
                                    /\ Numeric(row.dne))
            /\ ~(neOk /\ dneOk) => (row.ne = Missing /\ row.dne = Missing)

\* C12 witness: a finished conversion shows a row whose ne is at minNe and
\* whose dne is at maxNeErr, both as numbers
C12_Witness ==
    /\ pc = "done"
    /\ hType = "standard"
    /\ \E n \in 1..Len(appended) : \E k \in 1..Len(appended[n].rows) :
          /\ ValuesOfRecordRow(n, k).ne = minNe
          /\ ValuesOfRecordRow(n, k).dne = maxNeErr
          /\ appended[n].rows[k].ne = minNe
          /\ appended[n].rows[k].dne = maxNeErr

\* the pairs of a fitted row: value cell, error cell (the source fields have
\* the same names)
FittedPairs == { <<"ne", "dne">>, <<"ti", "dti">>, <<"te", "dte">>, <<"vo", "dvo">> }

\* the pairs of a velocity row: value cell, error cell, source value,
\* source error
VelocityPairs(byGeo) ==
    { <<"magvel", "dmagvel", "vmag", "dvmag">>, <<"magef", "dmagef", "emag", "demag">> }
    \cup
    (IF byGeo # 0
     THEN { <<"vi2", "dvi2", "vn", "dvn">>, <<"vi1", "dvi1", "ve", "dve">>,
            <<"vi3", "dvi3", "vp", "dvp">>, <<"gnangle", "dgnangle", "vdir", "dvdir">>,
            <<"en", "den", "en", "den">>, <<"ee", "dee", "ee", "dee">>,
            <<"eu", "deu", "eu", "deu">>, <<"geangle", "dgeangle", "edir", "dedir">> }
     ELSE { <<"vipn", "dvipn", "vn", "dvn">>, <<"vipe", "dvipe", "ve", "dve">>,
            <<"vi6", "dvi6", "vp", "dvp">>, <<"nangle", "dnangle", "vdir", "dvdir">>,
            <<"epn", "depn", "en", "den">>, <<"epe", "depe", "ee", "dee">>,
            <<"eangle", "deangle", "edir", "dedir">> })

\* C13: in every row of every record, a NaN in the value or in the error of
\* a pair of the source leaves both cells of the pair missing.
C13_NanPairMissing ==
    \A n \in 1..Len(appended) : \A k \in 1..Len(appended[n].rows) :
        LET row == appended[n].rows[k] IN
        /\ hType = "standard" =>
              \A q \in FittedPairs :
                  (ValuesOfRecordRow(n, k)[q[1]] = NaN \/ ValuesOfRecordRow(n, k)[q[2]] = NaN)
                  => (row[q[1]] = Missing /\ row[q[2]] = Missing)
        /\ hType = "uncorrected_ne_only" =>
              ((ValuesOfRecordRow(n, k).pop = NaN \/ ValuesOfRecordRow(n, k).dpop = NaN)
               => (row.popl = Missing /\ row.dpopl = Missing))
        /\ hType = "velocity" =>
              \A q \in VelocityPairs(src.vel.byGeo) :
                  /\ q[1] \in DOMAIN row
                  /\ q[2] \in DOMAIN row
                  /\ (src.vel.bins[k][q[3]] = NaN \/ src.vel.bins[k][q[4]] = NaN)
                     => (row[q[1]] = Missing /\ row[q[2]] = Missing)

\* C13 witness: a finished uncorrected conversion shows a row whose density
\* is a number and whose error fraction is NaN, with popl and dpopl missing
C13_Witness ==
    /\ pc = "done"
    /\ hType = "uncorrected_ne_only"
    /\ \E n \in 1..Len(appended) : \E k \in 1..Len(appended[n].rows) :
          /\ ValuesOfRecordRow(n, k).pop = 1000
          /\ ValuesOfRecordRow(n, k).dpop = NaN
          /\ appended[n].rows[k].popl = Missing
          /\ appended[n].rows[k].dpopl = Missing

\* the cells of the vector components: value cell, error cell, source
\* value, source error
ComponentPairs(byGeo) ==
    IF byGeo # 0
    THEN { <<"vi2", "dvi2", "vn", "dvn">>, <<"vi1", "dvi1", "ve", "dve">>,
           <<"vi3", "dvi3", "vp", "dvp">> }
    ELSE { <<"vipn", "dvipn", "vn", "dvn">>, <<"vipe", "dvipe", "ve", "dve">>,
           <<"vi6", "dvi6", "vp", "dvp">> }

\* |x| of a number
Magnitude(x) == IF x < 0 THEN 0 - x ELSE x

\* C14: in every row of a velocity record a vector component and its error
\* are numbers when neither is NaN in the source, minVErr <= |err| <= maxVErr
\* and |value| <= maxV, err being the error of the source; otherwise both are
\* missing.
C14_ComponentValidity ==
    hType = "velocity" =>
    \A n \in 1..Len(appended) : \A k \in 1..Len(appended[n].rows) :
        \A q \in ComponentPairs(src.vel.byGeo) :
            LET v == src.vel.bins[k][q[3]]
                e == src.vel.bins[k][q[4]]
                ok == /\ v # NaN
                      /\ e # NaN
                      /\ Magnitude(e) >= minVErr
                      /\ Magnitude(e) <= maxVErr
                      /\ Magnitude(v) <= maxV
                row == appended[n].rows[k]
            IN  /\ ok => (Numeric(row[q[1]]) /\ Numeric(row[q[2]]))
                /\ ~ok => (row[q[1]] = Missing /\ row[q[2]] = Missing)

\* the ion fraction of the source is a number in minFract..maxFract
FractOk(f) == f # NaN /\ f >= minFract /\ f <= maxFract

\* C15 as stated: po+ is a number exactly when the fraction is valid, and dpo+
\* is 'assumed' in every row.
C15_ErrorAlwaysAssumed ==
    hType = "standard" =>
    \A n \in 1..Len(appended) : \A k \in 1..Len(appended[n].rows) :
        /\ Numeric(appended[n].rows[k].po) <=> FractOk(ValuesOfRecordRow(n, k).fract)
        /\ appended[n].rows[k].dpo = Assumed

\* C15, amended: po+ is the source's number exactly when the fraction is
\* valid and missing otherwise; dpo+ is 'assumed' next to a numeric po+ and
\* 'missing' next to a missing po+, and never a number.
C15_AssumedNextToNumeric ==
    hType = "standard" =>
    \A n \in 1..Len(appended) : \A k \in 1..Len(appended[n].rows) :
        LET f == ValuesOfRecordRow(n, k).fract
            row == appended[n].rows[k]
        IN  /\ FractOk(f) => (row.po = f /\ Numeric(row.po) /\ row.dpo = Assumed)
            /\ ~FractOk(f) => (row.po = Missing /\ row.dpo = Missing)
            /\ ~Numeric(row.dpo)

\* C15 witness: a finished conversion shows a row whose fraction is above
\* maxFract, with po+ and dpo+ both missing
C15_Witness ==
    /\ pc = "done"
    /\ hType = "standard"
    /\ \E n \in 1..Len(appended) : \E k \in 1..Len(appended[n].rows) :
          /\ ValuesOfRecordRow(n, k).fract = maxFract + 10
          /\ appended[n].rows[k].po = Missing
          /\ appended[n].rows[k].dpo = Missing

\* 10 to the power k
RECURSIVE Pow10(_)
Pow10(k) == IF k = 0 THEN 1 ELSE 10 * Pow10(k - 1)

\* the density and its error fraction pass the tests of the builder
PopOk(pop, dpop) == pop # NaN /\ dpop # NaN /\ dpop > 0

FittedFamilies ==
    { [from |-> {"ne", "dne"}, to |-> {"ne", "dne"}],
      [from |-> {"ti", "dti"}, to |-> {"ti", "dti"}],
      [from |-> {"te", "dte"}, to |-> {"te", "dte"}],
      [from |-> {"vo", "dvo"}, to |-> {"vo", "dvo"}],
      [from |-> {"fract"}, to |-> {"po", "dpo"}],
      [from |-> {"chisq"}, to |-> {"chisq"}],
      [from |-> {"snr"}, to |-> {"sn"}],
      [from |-> {"plat"}, to |-> {"cgm_lat"}],
      [from |-> {"plong"}, to |-> {"cgm_long"}] }

\* the values g of a gate with those of family fam made valid
Healed(g, fam) == [f \in DOMAIN g |-> IF f \in fam.from THEN GoodGate[f] ELSE g[f]]

\* the record the builder makes of the tuple of the n-th appended record once
\* the values of family fam at gate j are valid
HealedRecord(n, j, fam) ==
    set_fitted_data_rec([inputs[n] EXCEPT !.gates[j] = Healed(@, fam)])

\* C17: a fitted record is built whatever the values of its gates are, and
\* making the inputs of one family at one gate valid changes no cell but the
\* cells of that family in the row of that gate.
C17_FamiliesIndependent ==
    hType = "standard" =>
    /\ err # "BuilderError"
    /\ err # "TaskError"
    /\ \A n \in 1..Len(appended) :
          \A j \in 1..Len(inputs[n].gates) : \A fam \in FittedFamilies :
              LET healed == HealedRecord(n, j, fam) IN
              /\ healed.kind = "rec"
              /\ Len(healed.rows) = Len(appended[n].rows)
              /\ \A k \in 1..Len(appended[n].rows) :
                    \A f \in DOMAIN appended[n].rows[k] :
                        (GateOfRecordRow(n, k) # j \/ f \notin fam.to)
                        => healed.rows[k][f] = appended[n].rows[k][f]

\* C17 witness: a finished conversion shows a row whose temperature pair ti,
\* dti is missing (the source's ti is NaN) next to numeric ne, te, vo and po+
C17_Witness ==
    /\ pc = "done"
    /\ hType = "standard"
    /\ \E n \in 1..Len(appended) : \E k \in 1..Len(appended[n].rows) :
          /\ ValuesOfRecordRow(n, k).ti = NaN
          /\ appended[n].rows[k].ti = Missing
          /\ appended[n].rows[k].dti = Missing
          /\ Numeric(appended[n].rows[k].ne)
          /\ Numeric(appended[n].rows[k].te)
          /\ Numeric(appended[n].rows[k].dte)
          /\ Numeric(appended[n].rows[k].vo)
          /\ Numeric(appended[n].rows[k].po)

\* C18: in every row of a fitted or uncorrected record whose range is a
\* number, the cell 'range' is the source's range in meters divided by 1000.
C18_RangeInKm ==
    Parallel(hType) =>
    \A n \in 1..Len(appended) : \A k \in 1..Len(appended[n].rows) :
        RangeOfRecord(n)[GateOfRecordRow(n, k)] # NaN
        => appended[n].rows[k].range * 1000 = RangeOfRecord(n)[GateOfRecordRow(n, k)]

\* the optional groups of a velocity file
OptionalGroups == {"Eest", "Emag"}

\* the 2D fields of a velocity record of a file whose groups in u are left out
FieldsWithout(byGeo, u) ==
    {"nsmpta", "magvel", "dmagvel"}
    \cup (IF byGeo = 2 THEN {"gdlat"} ELSE {"cgm_lat"})
    \cup (IF byGeo # 0
          THEN {"vi2", "dvi2", "vi1", "dvi1", "vi3", "dvi3", "gnangle", "dgnangle"}
          ELSE {"vipn", "dvipn", "vipe", "dvipe", "vi6", "dvi6", "nangle", "dnangle"})
    \cup (IF "Eest" \in u THEN {}
          ELSE IF byGeo # 0 THEN {"en", "den", "ee", "dee", "eu", "deu"}
          ELSE {"epn", "depn", "epe", "depe"})
    \cup (IF "Emag" \in u THEN {}
          ELSE IF byGeo # 0 THEN {"magef", "dmagef", "geangle", "dgeangle"}
          ELSE {"magef", "dmagef", "eangle", "deangle"})

\* C19: a velocity conversion of a file in which only optional groups cannot
\* be read does not fail, and every record it appends has the fields of the
\* groups that were read and no field of the others.
C19_OptionalGroupOmitted ==
    (hType = "velocity" /\ src.vel.unreadable \subseteq OptionalGroups) =>
    /\ pc # "failed"
    /\ \A n \in 1..Len(appended) : \A k \in 1..Len(appended[n].rows) :
          DOMAIN appended[n].rows[k] = FieldsWithout(src.vel.byGeo, src.vel.unreadable)

\* C20: when a standard or uncorrected-density conversion has completed,
\* numRecs is the number of records it appended.
C20_NumRecsIsAppended ==
    (pc = "done" /\ Parallel(hType)) => numRecs = Len(appended)

\* C20 witness: a completed parallel conversion of a file with two beams
\* and two times
C20_Witness ==
    /\ pc = "done"
    /\ Parallel(hType)
    /\ src.numBeams = 2
    /\ src.numTimes = 2
    /\ Len(appended) = 4
    /\ numRecs = 4

\* C21: with file_version None, the version createNewExperimentFromIni gives
\* the file is one more than the highest existing version (1 when there is
\* none), and is not an existing version.
C21_NextVersionAfterHighest ==
    (call.op = "create" /\ call.file_version = None) =>
        /\ call.version = (IF call.existing = {} THEN 1 ELSE Max(call.existing) + 1)
        /\ call.version \notin call.existing

\* C22: with file_version None and at least one existing version,
\* uploadExperiment goes on with the highest existing version and does not
\* raise.
C22_UploadUsesLatest ==
    (call.op = "upload" /\ call.file_version = None /\ call.existing # {}) =>
        /\ ~call.raised
        /\ call.version = Max(call.existing)

\* the id is well formed apart from its trailing number
ExpIdOtherwiseValid(expId) == expId.year >= 1900 /\ expId.instCode = KnownInstCode

\* C23: for a trailing number 0 the optional character is the empty string,
\* and for n in 1..26 it is the n-th lowercase letter, chr(96 + n).
C23_NumberToLetter ==
    (call.op = "parseExpId" /\ ExpIdOtherwiseValid(call.expId)
       /\ call.expId.num \in 0..26) =>
        /\ call.raised = ""
        /\ call.extChar = (IF call.expId.num = 0 THEN <<>> ELSE <<96 + call.expId.num>>)

\* C24: parseExpId raises ValueError for every id whose trailing number is
\* below 0 or above 26.
C24_NumberOutOfRangeRaises ==
    (call.op = "parseExpId" /\ (call.expId.num < 0 \/ call.expId.num > 26)) =>
        /\ call.raised = "ValueError"
        /\ call.dirName = <<>>

\* what a source file is: its processing class, its pulse type and its
\* integration time in seconds
ClassOfFile(file) ==
    IF file.type = "uncorrected_ne_only" THEN "nenotr"
    ELSE IF file.type = "standard" THEN "fit" ELSE "vvels"

PulseOfFile(file) ==
    IF file.pulse = "lp" THEN "lp"
    ELSE IF file.pulse \in {"ac", "acfl"} THEN "ac" ELSE "bc"

SecondsOf(int_time) ==
    IF int_time \in {"1min", "60sec"} THEN 60
    ELSE IF int_time \in {"2min", "120sec"} THEN 120
    ELSE IF int_time \in {"3min", "180sec"} THEN 180
    ELSE IF int_time \in {"5min", "300sec"} THEN 300
    ELSE IF int_time \in {"10min", "600sec"} THEN 600
    ELSE IF int_time \in {"15min", "900sec"} THEN 900
    ELSE IF int_time \in {"20min", "1200sec"} THEN 1200
    ELSE IF int_time = "30sec" THEN 30
    ELSE IF int_time = "15sec" THEN 15
    ELSE 4

DescSeconds(d) == IF d.unit = "sec" THEN d.n ELSE 60 * d.n

\* C25: for every file for which determine_kindat gives a kindat,
\* kindat2fname accepts it and decodes the processing class, the pulse type
\* and the integration time that were encoded.
C25_KindatRoundTrip ==
    call.op = "kindat2fname" =>
        /\ call.fname.raised = ""
        /\ call.fname.pc_desc = ClassOfFile(call.file)
        /\ call.fname.pt_desc = PulseOfFile(call.file)
        /\ DescSeconds(call.fname.it_desc)
             = SecondsOf(IntTimeOf(call.file.type, call.file.intg, call.file.final))

\* C26: for every task that built a record, slot i holds that record whole:
\* what the driving process decodes from slot i is the record task i built.
C26_SlotRoundTrip ==
    \A i \in 1..Len(taskState) :
        (taskState[i] = "done" /\ Builder(hType, inputs[i]).kind = "rec") =>
            /\ slots[i].rec = Builder(hType, inputs[i])
            /\ slots[i].len = DumpsLen(Builder(hType, inputs[i]))

\* C27: in every velocity record, each field of ind2DList is one of the 2D
\* fields of the record, whatever the binning mode.
C27_IndexFieldIsOwnField ==
    hType = "velocity" =>
    \A n \in 1..Len(appended) :
        \A i \in 1..Len(appended[n].ind2DList) :
            \A k \in 1..Len(appended[n].rows) :
                appended[n].ind2DList[i] \in DOMAIN appended[n].rows[k]

\* C28: in the ini build produces, no two File sections have the same
\* hdf5Filename and the same type.
C28_FileAddedOncePerType ==
    (call.op = "build" /\ call.raised = "") =>
        \A i, j \in 1..Len(call.sections) :
            i # j => call.sections[i] # call.sections[j]

\* how often the line p occurs in the table
CountOf(table, p) == Cardinality({i \in 1..Len(table) : table[i] = p})

Listed(table, kindat) == \E i \in 1..Len(table) : table[i][1] = kindat

\* what one call of update_typetab did to the table
TypetabCallOk ==
    call.op = "update_typetab" =>
        LET new == <<call.kindat, call.ckindat>>
        IN  /\ Listed(call.before, call.kindat) => call.after = call.before
            /\ ~Listed(call.before, call.kindat) =>
                  /\ Len(call.after) = Len(call.before) + 1
                  /\ \A i \in 1..(Len(call.after) - 1) :
                        call.after[i][1] <= call.after[i + 1][1]
                  /\ \A p \in (TabKindats \X TabDescs) :
                        CountOf(call.after, p)
                          = CountOf(call.before, p) + (IF p = new THEN 1 ELSE 0)
            /\ disk.typetab = call.after

C30_LowestUnusedName ==
    call.op = "links" =>
        \A i \in 1..Len(call.made) :
            LET m == call.made[i]
                avoid == m.existing \cup (IF m.given THEN Elems(m.passed) ELSE {})
            IN  /\ m.plotNum \notin avoid
                /\ \A n \in 0..(m.plotNum - 1) : n \in avoid

====
